---- MODULE Spec2Model ----
(***************************************************************************)
(* Model of the receive-side core of CS144-Rawsockets-Rust:                *)
(*   - ByteStream   (src/src/conn/byte_stream.rs)                          *)
(*   - Reassembler  (src/src/conn/reassembler.rs)                          *)
(*   - Wrap32       (src/src/tcp/wrap32.rs)                                *)
(*   - TcpReceiver  (src/src/tcp/receiver.rs)                              *)
(*   - TcpSocket    (src/src/tcp/socket/socket.rs and socket/states)       *)
(*   - TCPReceiver  (src/src/conn/tcp_receiver.rs, stream_reassembler.rs)  *)
(*   - the packet codec (src/src/ip, tcp/tcp_header.rs, packet)            *)
(* Byte vectors are sequences of small integers, the BTreeMap of pending   *)
(* segments is a function from start index to byte sequence.  The 32-bit   *)
(* sequence numbers are WrapBits wide and the 64-bit indices WrapBits + 2,  *)
(* so that every wrap-around case is enumerable.                           *)
(***************************************************************************)
EXTENDS Integers, Sequences, FiniteSets, TLC

\* ------------------------------------------------------------------ bounds
MaxCap == 3      \* largest ByteStream capacity explored
MaxIdx == 2      \* largest first index of an insert
MaxLen == 2      \* longest data of an insert or a write
MaxSrc == 3      \* longest finite source (and capacity) of the ordering and liveness runs
MaxSegs == 3     \* most segments a finite source is cut into
MaxWritten == 4  \* writes to a bare ByteStream stop once this many bytes are in
MaxNext == 2     \* a TcpReceiver takes segments until next_byte_idx reaches this
RcvCap == 2      \* largest capacity of a TcpReceiver
RcvSpan == 2     \* sequence numbers offered to a TcpReceiver: isn .. isn + RcvSpan
WrapBits == 3    \* width of a Wrap32 value (32 in the program)

Byte == {1, 2}   \* byte values of arbitrary data (0 is the resize filler)

\* ------------------------------------------------------------------ helpers
Min(a, b) == IF a <= b THEN a ELSE b
Max(a, b) == IF a >= b THEN a ELSE b

SeqsUpTo(S, n) == UNION {[1..k -> S] : k \in 0..n}

\* data[from..to) with 0-based half-open Rust slice indices
Slice(data, from, to) == SubSeq(data, from + 1, to)

\* F applied to the value of v, with v evaluated once (a Rust `let`)
Strict(v, F(_)) == CHOOSE y \in {F(x) : x \in {v}} : TRUE

IsPrefix(s, t) == Len(s) <= Len(t) /\ SubSeq(t, 1, Len(s)) = s

\* The source sequence the segments of one stream are cut from: byte i is i+1.
Source(first, len) == [j \in 1..len |-> first + j]

\* ------------------------------------------------------------------ ByteStream
\* ByteStream::new
BS_new(capacity) ==
    [buffer |-> <<>>, capacity |-> capacity, bytes_written |-> 0,
     bytes_read |-> 0, closed |-> FALSE]

\* ByteStream::remaining_capacity (saturating_sub)
remaining_capacity(bs) ==
    IF bs.capacity >= Len(bs.buffer) THEN bs.capacity - Len(bs.buffer) ELSE 0

buffer_size(bs) == Len(bs.buffer)
is_buffer_empty(bs) == Len(bs.buffer) = 0
is_closed(bs) == bs.closed
eof(bs) == bs.closed /\ is_buffer_empty(bs)

\* close that also throws away the bytes still buffered
close_and_clear(bs) == [bs EXCEPT !.closed = TRUE, !.buffer = <<>>]

\* ByteStream::close
close(bs) == [bs EXCEPT !.closed = TRUE]

\* write without the clamp to the remaining capacity
write_unclamped(bs, buf) ==
    IF bs.closed
    THEN [err |-> TRUE, n |-> 0, bs |-> bs]
    ELSE [err |-> FALSE, n |-> Len(buf),
          bs |-> [bs EXCEPT !.buffer = @ \o buf,
                            !.bytes_written = @ + Len(buf)]]

\* write that does not look at the closed flag
write_ignoring_closed(bs, buf) ==
    LET available == remaining_capacity(bs)
        to_write == Min(Len(buf), available)
    IN [err |-> FALSE, n |-> to_write,
        bs |-> [bs EXCEPT !.buffer = @ \o Slice(buf, 0, to_write),
                          !.bytes_written = @ + to_write]]

\* ByteStream::write: Err on a closed stream, else extend by min(len, available)
write(bs, buf) ==
    IF bs.closed
    THEN [err |-> TRUE, n |-> 0, bs |-> bs]
    ELSE LET available == remaining_capacity(bs)
             to_write == Min(Len(buf), available)
         IN [err |-> FALSE, n |-> to_write,
             bs |-> [bs EXCEPT !.buffer = @ \o Slice(buf, 0, to_write),
                               !.bytes_written = @ + to_write]]

\* read that copies the bytes out and counts them but leaves one in the buffer
read_short_drain(bs, buflen) ==
    LET to_read == Min(buflen, Len(bs.buffer))
    IN IF to_read > 0
       THEN [n |-> to_read, data |-> Slice(bs.buffer, 0, to_read),
             bs |-> [bs EXCEPT !.buffer = Slice(@, to_read - 1, Len(@)),
                               !.bytes_read = @ + to_read]]
       ELSE [n |-> 0, data |-> <<>>, bs |-> bs]

\* ByteStream::read into a buffer of length buflen: the bytes copied out and
\* the stream with them drained
read(bs, buflen) ==
    LET to_read == Min(buflen, Len(bs.buffer))
    IN IF to_read > 0
       THEN [n |-> to_read, data |-> Slice(bs.buffer, 0, to_read),
             bs |-> [bs EXCEPT !.buffer = Slice(@, to_read, Len(@)),
                               !.bytes_read = @ + to_read]]
       ELSE [n |-> 0, data |-> <<>>, bs |-> bs]

\* ByteStream::pop_output
pop_output(bs, len) ==
    LET to_pop == Min(len, Len(bs.buffer))
    IN [n |-> to_pop,
        bs |-> [bs EXCEPT !.buffer = Slice(@, to_pop, Len(@)),
                          !.bytes_read = @ + to_pop]]

\* ByteStream::peek_output
peek_output(bs, amount) ==
    LET to_peek == Min(amount, Len(bs.buffer))
    IN Slice(bs.buffer, 0, to_peek)

\* ------------------------------------------------------------------ Reassembler
None == <<>>
Some(x) == <<x>>

\* BTreeMap insert / remove
MapInsert(m, k, v) == [x \in DOMAIN m \cup {k} |-> IF x = k THEN v ELSE m[x]]
MapRemove(m, k) == [x \in DOMAIN m \ {k} |-> m[x]]
EmptyMap == [x \in {} |-> <<>>]

RECURSIVE SumLen(_, _)
SumLen(m, keys) ==
    IF keys = {} THEN 0
    ELSE LET k == CHOOSE x \in keys : TRUE
         IN Len(m[k]) + SumLen(m, keys \ {k})

\* keys in ascending order, the iteration order of a BTreeMap range
RECURSIVE Ascending(_)
Ascending(keys) ==
    IF keys = {} THEN <<>>
    ELSE LET k == CHOOSE x \in keys : \A y \in keys : x <= y
         IN <<k>> \o Ascending(keys \ {k})

\* Reassembler::new
RA_new(out) ==
    [segments |-> EmptyMap, output |-> out, next_byte_idx |-> 0,
     last_byte_idx |-> None, last_recvd |-> FALSE]

\* Reassembler::bytes_pending
bytes_pending(r) == SumLen(r.segments, DOMAIN r.segments)

\* is_done with a strict comparison: never done when next_byte_idx = last_byte_idx
is_done_strict(r) ==
    /\ r.last_recvd
    /\ r.last_byte_idx # None
    /\ r.next_byte_idx > r.last_byte_idx[1]

\* is_done as soon as the last segment was seen, whatever has been committed
is_done_on_last(r) == r.last_recvd

\* Reassembler::is_done
is_done(r) ==
    /\ r.last_recvd
    /\ r.last_byte_idx # None
    /\ r.next_byte_idx >= r.last_byte_idx[1]

\* find_overlapping_segments over range(start..end): misses a segment that
\* starts before `start` and reaches into the window
find_overlapping_from_start(segments, start, end) ==
    Ascending({k \in DOMAIN segments : k >= start /\ k < end})

\* Reassembler::find_overlapping_segments: the keys below `end` whose segment
\* ends after `start`, ascending
find_overlapping_segments(segments, start, end) ==
    Ascending({k \in DOMAIN segments : k < end /\ k + Len(segments[k]) > start})

\* Vec::resize(req_len, 0) when the vector is shorter than req_len
Resize(merged, req_len) ==
    IF Len(merged) < req_len
    THEN merged \o [j \in 1..(req_len - Len(merged)) |-> 0]
    ELSE merged

\* copy_from_slice that always lands at the front of merged
CopyAtFront(merged, at, src) ==
    [j \in 1..Len(merged) |-> IF j <= Len(src) THEN src[j] ELSE merged[j]]

\* merged[at..at+len(src)].copy_from_slice(src); out of range is a panic
InRange(merged, at, src) == at >= 0 /\ at + Len(src) <= Len(merged)
CopyFromSlice(merged, at, src) ==
    [j \in 1..Len(merged) |->
        IF j > at /\ j <= at + Len(src) THEN src[j - at] ELSE merged[j]]

\* One iteration of the merge loop of insert_buffer over the segment
\* (seg_start, seg_data) that find_overlapping_segments returned.
\* st = [segments, merged, m_start, m_end, panic]
MergeStep(st, seg_start, seg_data) ==
    LET removed == MapRemove(st.segments, seg_start)
        seg_end == seg_start + Len(seg_data)
        m_start == Min(st.m_start, seg_start)
        insert_idx == seg_start - m_start
    IN IF seg_end <= st.m_end
       THEN \* fully overlapping within [m_start, m_end)
            LET m_end == Max(st.m_end, seg_end)
                req_len == m_end - m_start
                grown == Resize(st.merged, req_len)
            IN IF InRange(grown, insert_idx, seg_data)
               THEN [st EXCEPT !.segments = removed, !.m_start = m_start,
                               !.m_end = m_end,
                               !.merged = CopyFromSlice(grown, insert_idx, seg_data)]
               ELSE [st EXCEPT !.segments = removed, !.panic = TRUE]
       ELSE \* partial overlap: seg_end > m_end
            LET overlap_len == st.m_end - seg_start
                req_len == st.m_end - m_start
                grown == Resize(st.merged, req_len)
                head == Slice(seg_data, 0, overlap_len)
                rem_data == Slice(seg_data, overlap_len, Len(seg_data))
            IN IF InRange(grown, insert_idx, head)
               THEN [st EXCEPT !.segments = MapInsert(removed, st.m_end, rem_data),
                               !.m_start = m_start,
                               !.merged = CopyFromSlice(grown, insert_idx, head)]
               ELSE [st EXCEPT !.segments = removed, !.panic = TRUE]

RECURSIVE MergeLoop(_, _, _)
MergeLoop(st, overlapping, orig) ==
    IF overlapping = <<>> \/ st.panic THEN st
    ELSE Strict(MergeStep(st, Head(overlapping), orig[Head(overlapping)]),
                LAMBDA next_st : MergeLoop(next_st, Tail(overlapping), orig))

\* insert_buffer that buffers the whole tail of the data, whatever the
\* remaining capacity of the stream
insert_buffer_unbounded(r, seq_num, data) ==
    LET last_idx == seq_num + Len(data)
        start == Max(seq_num, r.next_byte_idx)
    IN IF Len(data) = 0 \/ last_idx <= r.next_byte_idx
       THEN [r |-> r, panic |-> FALSE]
       ELSE [r |-> [r EXCEPT !.segments =
                       MapInsert(@, start, Slice(data, start - seq_num, Len(data)))],
             panic |-> FALSE]

\* insert_buffer that keeps the bytes of the data that lie before next_byte_idx
insert_buffer_from_seq(r, seq_num, data) ==
    LET last_idx == seq_num + Len(data)
        end == Min(last_idx, r.next_byte_idx + remaining_capacity(r.output))
    IN IF Len(data) = 0 \/ last_idx <= r.next_byte_idx \/ seq_num >= end
       THEN [r |-> r, panic |-> FALSE]
       ELSE [r |-> [r EXCEPT !.segments =
                       MapInsert(@, seq_num, Slice(data, 0, end - seq_num))],
             panic |-> FALSE]

\* insert_buffer that appends the data at next_byte_idx whatever its index:
\* a duplicate is buffered, and committed, once more
insert_buffer_append(r, seq_num, data) ==
    LET end == Min(Len(data), remaining_capacity(r.output))
    IN IF end = 0
       THEN [r |-> r, panic |-> FALSE]
       ELSE [r |-> [r EXCEPT !.segments =
                       MapInsert(@, r.next_byte_idx, Slice(data, 0, end))],
             panic |-> FALSE]

\* Reassembler::insert_buffer; result [r, panic]
insert_buffer(r, seq_num, data) ==
    LET last_idx == seq_num + Len(data)
        start == Max(seq_num, r.next_byte_idx)
        end == Min(last_idx, r.next_byte_idx + remaining_capacity(r.output))
    IN IF Len(data) = 0 THEN [r |-> r, panic |-> FALSE]
       ELSE IF last_idx <= r.next_byte_idx THEN [r |-> r, panic |-> FALSE]
       ELSE IF start >= end THEN [r |-> r, panic |-> FALSE]
       ELSE LET offset == start - seq_num
                window == Slice(data, offset, end - seq_num)
                overlapping == find_overlapping_segments(r.segments, start, end)
            IN Strict(MergeLoop([segments |-> r.segments, merged |-> window,
                                 m_start |-> start, m_end |-> end,
                                 panic |-> FALSE],
                                overlapping, r.segments),
                      LAMBDA st :
                LET new_idx == start - st.m_start
                IN IF st.panic \/ ~InRange(st.merged, new_idx, window)
                   THEN [r |-> [r EXCEPT !.segments = st.segments], panic |-> TRUE]
                   ELSE [r |-> [r EXCEPT !.segments =
                                   MapInsert(st.segments, st.m_start,
                                             CopyFromSlice(st.merged, new_idx, window))],
                         panic |-> FALSE])

\* try_write that commits but leaves the closing of the stream to a later insert
RECURSIVE TryWriteNoClose(_, _)
TryWriteNoClose(r, wrote) ==
    IF r.next_byte_idx \notin DOMAIN r.segments
    THEN [r |-> r, err |-> FALSE, wrote |-> wrote]
    ELSE LET data == r.segments[r.next_byte_idx]
             popped == [r EXCEPT !.segments = MapRemove(@, r.next_byte_idx)]
             w == write(r.output, data)
         IN IF w.err
            THEN [r |-> popped, err |-> TRUE, wrote |-> wrote]
            ELSE IF w.n = 0
            THEN [r |-> r, err |-> FALSE, wrote |-> wrote]
            ELSE Strict([popped EXCEPT !.output = w.bs,
                                       !.next_byte_idx = @ + w.n],
                        LAMBDA full : TryWriteNoClose(full, wrote \o data))

try_write_no_close(r) == TryWriteNoClose(r, <<>>)

\* Reassembler::try_write; result [r, err, wrote] where wrote is the bytes the
\* stream accepted during the call, in order
RECURSIVE TryWriteLoop(_, _)
TryWriteLoop(r, wrote) ==
    IF r.next_byte_idx \notin DOMAIN r.segments
    THEN [r |-> r, err |-> FALSE, wrote |-> wrote]
    ELSE LET data == r.segments[r.next_byte_idx]
             popped == [r EXCEPT !.segments = MapRemove(@, r.next_byte_idx)]
             w == write(r.output, data)
             n == w.n
         IN IF w.err
            THEN [r |-> popped, err |-> TRUE, wrote |-> wrote]
            ELSE IF n = 0
            THEN [r |-> r, err |-> FALSE, wrote |-> wrote]
            ELSE IF n < Len(data)
            THEN [r |-> [popped EXCEPT
                           !.output = w.bs,
                           !.segments = MapInsert(@, r.next_byte_idx + n,
                                                  Slice(data, n, Len(data))),
                           !.next_byte_idx = @ + n],
                  err |-> FALSE, wrote |-> wrote \o Slice(data, 0, n)]
            ELSE Strict([popped EXCEPT !.output = w.bs,
                                       !.next_byte_idx = @ + n],
                        LAMBDA full :
                    IF is_done(full)
                    THEN [r |-> [full EXCEPT !.output = close(@)],
                          err |-> FALSE, wrote |-> wrote \o data]
                    ELSE TryWriteLoop(full, wrote \o data))

try_write(r) == TryWriteLoop(r, <<>>)

\* Reassembler::insert; result [r, res, wrote], res in {"Ok", "Err", "Panic"}
insert(r, data, seq_num, is_last) ==
    IF Len(data) = 0 /\ ~is_last
    THEN [r |-> r, res |-> "Ok", wrote |-> <<>>]
    ELSE LET r1 == IF is_last
                   THEN [r EXCEPT !.last_recvd = TRUE,
                                  !.last_byte_idx = Some(seq_num + Len(data))]
                   ELSE r
         IN IF is_done(r1)
            THEN [r |-> [r1 EXCEPT !.output = close(@)], res |-> "Ok",
                  wrote |-> <<>>]
            ELSE Strict(insert_buffer(r1, seq_num, data), LAMBDA b :
                    IF b.panic
                    THEN [r |-> b.r, res |-> "Panic", wrote |-> <<>>]
                    ELSE Strict(try_write(b.r), LAMBDA t :
                            [r |-> t.r, res |-> IF t.err THEN "Err" ELSE "Ok",
                             wrote |-> t.wrote]))

\* ------------------------------------------------------------------ Wrap32
WRAP_SIZE == 2 ^ WrapBits          \* Wrap32::WRAP_SIZE, 1 << 32 in the program
HALF_WRAP == 2 ^ (WrapBits - 1)    \* Wrap32::HALF_WRAP, 1 << 31 in the program
U64_SIZE == 2 ^ (WrapBits + 2)     \* number of u64 values, 1 << 64 in the program

\* Wrap32::new: the value field
Wrap32_new(value) == value % WRAP_SIZE

\* Wrap32::wrap(n, isn): (n + isn.value as u64) as u32.  The u64 addition
\* panics on overflow when the build checks overflow, else wraps around.
wrap(n, isn_value, checks) ==
    LET sum == n + isn_value
    IN IF sum >= U64_SIZE /\ checks
       THEN [panic |-> TRUE, value |-> 0]
       ELSE [panic |-> FALSE, value |-> (sum % U64_SIZE) % WRAP_SIZE]

\* unwrap that takes the candidate in the wrap of the checkpoint instead of
\* the candidate closest to it
unwrap_floor(value, isn_value, checkpoint, checks) ==
    LET relative == (value - isn_value) % WRAP_SIZE
        k == checkpoint \div WRAP_SIZE
    IN [panic |-> FALSE, abs |-> relative + k * WRAP_SIZE]

\* Wrap32::unwrap(self, isn, checkpoint):
\*   relative = self.value.wrapping_sub(isn.value) as u64
\*   k = (checkpoint + HALF_WRAP).saturating_sub(relative) >> 32
\*   relative + k * WRAP_SIZE
unwrap(value, isn_value, checkpoint, checks) ==
    LET relative == (value - isn_value) % WRAP_SIZE
        sum == checkpoint + HALF_WRAP
    IN IF sum >= U64_SIZE /\ checks
       THEN [panic |-> TRUE, abs |-> 0]
       ELSE LET s == sum % U64_SIZE
                diff == IF s >= relative THEN s - relative ELSE 0
                k == diff \div WRAP_SIZE
            IN [panic |-> FALSE, abs |-> relative + k * WRAP_SIZE]

\* ------------------------------------------------------------------ TcpReceiver
\* receive_segment that hands back no more bytes than the payload it was
\* given: what was committed out of the pending map stays in the stream
receive_segment_read_payload(rcv, seq_no, payload, syn, fin, checks) ==
    IF syn
    THEN Strict(insert(rcv.r, <<>>, 0, FALSE), LAMBDA i :
            [rcv |-> [rcv EXCEPT !.r = i.r], res |-> i.res, at |-> 0,
             data |-> <<>>, wrote |-> i.wrote])
    ELSE LET checkpoint == rcv.r.next_byte_idx
             u == unwrap(seq_no, rcv.isn, checkpoint, checks)
             abs_seq_no == IF fin THEN u.abs + 1 ELSE u.abs
         IN IF u.panic
            THEN [rcv |-> rcv, res |-> "Panic", at |-> 0, data |-> <<>>,
                  wrote |-> <<>>]
            ELSE Strict(insert(rcv.r, payload, abs_seq_no, fin), LAMBDA i :
                    IF i.res # "Ok"
                    THEN [rcv |-> [rcv EXCEPT !.r = i.r], res |-> i.res,
                          at |-> abs_seq_no, data |-> <<>>, wrote |-> i.wrote]
                    ELSE LET window == remaining_capacity(i.r.output)
                             x == read(i.r.output, Len(payload))
                         IN [rcv |-> [rcv EXCEPT
                                        !.r = [i.r EXCEPT !.output = x.bs],
                                        !.advertised_window = window],
                             res |-> "Ok", at |-> abs_seq_no, data |-> x.data,
                             wrote |-> i.wrote])

\* TcpReceiver::receive_segment on rcv = [isn, r, advertised_window] for a
\* segment with the given seq_no, payload and SYN / FIN flags.
\* Result [rcv, res, at, data, wrote]: res in {"Ok", "Err", "Panic"}, at the
\* index handed to insert, data the bytes read_to_end returned, wrote the
\* bytes the insert committed to the stream.
receive_segment(rcv, seq_no, payload, syn, fin, checks) ==
    IF syn
    THEN Strict(insert(rcv.r, <<>>, 0, FALSE), LAMBDA i :
            [rcv |-> [rcv EXCEPT !.r = i.r], res |-> i.res, at |-> 0,
             data |-> <<>>, wrote |-> i.wrote])
    ELSE LET checkpoint == rcv.r.next_byte_idx
             u == unwrap(seq_no, rcv.isn, checkpoint, checks)
             abs_seq_no == IF fin THEN u.abs + 1 ELSE u.abs
         IN IF u.panic
            THEN [rcv |-> rcv, res |-> "Panic", at |-> 0, data |-> <<>>,
                  wrote |-> <<>>]
            ELSE Strict(insert(rcv.r, payload, abs_seq_no, fin), LAMBDA i :
                    IF i.res # "Ok"
                    THEN [rcv |-> [rcv EXCEPT !.r = i.r], res |-> i.res,
                          at |-> abs_seq_no, data |-> <<>>, wrote |-> i.wrote]
                    ELSE LET window == remaining_capacity(i.r.output)
                             x == read(i.r.output, Len(i.r.output.buffer))
                         IN [rcv |-> [rcv EXCEPT
                                        !.r = [i.r EXCEPT !.output = x.bs],
                                        !.advertised_window = window],
                             res |-> "Ok", at |-> abs_seq_no, data |-> x.data,
                             wrote |-> i.wrote])

\* TcpReceiver::generate_ack: (Wrap32::new(next_byte_idx as u32), advertised_window)
generate_ack(rcv) ==
    [ack_no |-> Wrap32_new(rcv.r.next_byte_idx), window |-> rcv.advertised_window]

\* The indices [start, end) that this call of insert hands to the pending map:
\* none when insert returns before insert_buffer or insert_buffer returns early
AdmittedBy(r, data, seq_num, is_last) ==
    LET r1 == IF is_last
              THEN [r EXCEPT !.last_recvd = TRUE,
                             !.last_byte_idx = Some(seq_num + Len(data))]
              ELSE r
        last_idx == seq_num + Len(data)
        start == Max(seq_num, r.next_byte_idx)
        end == Min(last_idx, r.next_byte_idx + remaining_capacity(r.output))
    IN IF Len(data) = 0 \/ is_done(r1) \/ last_idx <= r.next_byte_idx \/ start >= end
       THEN {}
       ELSE start..(end - 1)

\* ------------------------------------------------------------------ state
VARIABLES
    segments,       \* Reassembler.segments
    output,         \* Reassembler.output, the ByteStream
    next_byte_idx,  \* Reassembler.next_byte_idx
    last_byte_idx,  \* Reassembler.last_byte_idx
    last_recvd,     \* Reassembler.last_recvd
    accepted,       \* history: every byte write has accepted, in order
    consumed,       \* history: every byte the consumer has taken, in order
    one_end,        \* history: no two is_last inserts declared different end indices
    src_len,        \* length N of the finite source being sent (ordering and liveness runs)
    segs,           \* the segments <<first, len>> the finite source is cut into
    inserted,       \* history: the segments of segs inserted at least once
    ret,            \* the last call and what it returned
    admitted,       \* history: the indices insert_buffer stored and try_write has not committed
    dup,            \* the insert <<data, seq_num, is_last>> that is issued again (idempotence runs)
    dup_issued,     \* history: dup has been issued at least once
    w32,            \* the Wrap32 value at hand, the isn and the last wrap / unwrap
    isn,            \* TcpReceiver.isn
    advertised_window, \* TcpReceiver.advertised_window
    syn_seq,        \* history: the sequence number of the last SYN received
    sock,           \* the TcpSocket: its control block, its timer and its type state
    sock_isn,       \* history: the sender_isn TcpSocket::new drew
    wire,           \* the segments the last TcpSocket call handed to its Sender
    crcv,           \* the TCPReceiver of conn/tcp_receiver.rs with its StreamReassembler
    codec           \* the packet codec: the headers given, the bytes at hand, the last result

raVars == <<segments, output, next_byte_idx, last_byte_idx, last_recvd>>
vars == <<segments, output, next_byte_idx, last_byte_idx, last_recvd,
          accepted, consumed, one_end, src_len, segs, inserted, ret,
          admitted, dup, dup_issued, w32, isn, advertised_window, syn_seq,
          sock, sock_isn, wire, crcv, codec>>
srcVars == <<src_len, segs, inserted>>
dupVars == <<dup, dup_issued>>
rcvVars == <<isn, advertised_window, syn_seq>>
sockVars == <<sock, sock_isn, wire>>
tcpVars == <<sockVars, crcv, codec>>
extVars == <<dupVars, w32, rcvVars, tcpVars>>

RA == [segments |-> segments, output |-> output, next_byte_idx |-> next_byte_idx,
       last_byte_idx |-> last_byte_idx, last_recvd |-> last_recvd]

SetRA(r) ==
    /\ segments' = r.segments
    /\ output' = r.output
    /\ next_byte_idx' = r.next_byte_idx
    /\ last_byte_idx' = r.last_byte_idx
    /\ last_recvd' = r.last_recvd

Ret(op, res, n, len, avail) ==
    [op |-> op, res |-> res, n |-> n, len |-> len, avail |-> avail]

InitWith(capacity) ==
    /\ segments = EmptyMap
    /\ output = BS_new(capacity)
    /\ next_byte_idx = 0
    /\ last_byte_idx = None
    /\ last_recvd = FALSE
    /\ accepted = <<>>
    /\ consumed = <<>>
    /\ one_end = TRUE
    /\ admitted = {}
    /\ ret = Ret("new", "Ok", 0, 0, 0)

NoSource ==
    /\ src_len = 0
    /\ segs = {}
    /\ inserted = {}

\* no insert singled out for re-issue
NoDup ==
    /\ dup = None
    /\ dup_issued = FALSE

\* no Wrap32 at hand
NoWrap == w32 = [op |-> "none"]

\* no TcpSocket
NoSocket ==
    /\ sock = [state |-> "none"]
    /\ sock_isn = 0
    /\ wire = <<>>

\* no TCPReceiver of conn/
NoConn == crcv = [state |-> "none"]

\* no packet at the codec
NoCodec == codec = [op |-> "none"]

\* no TcpReceiver around the Reassembler
NoReceiver ==
    /\ isn = 0
    /\ advertised_window = 0
    /\ syn_seq = None

\* ------------------------------------------------------------------ actions
\* ra.insert(data, seq_num, is_last); the histories are kept when trace is set
Insert(data, seq_num, is_last, trace) ==
    \E i \in {insert(RA, data, seq_num, is_last)} :
       /\ SetRA(i.r)
       /\ accepted' = IF trace THEN accepted \o i.wrote ELSE accepted
       /\ one_end' = (one_end /\ (is_last /\ last_recvd
                                    => last_byte_idx = Some(seq_num + Len(data))))
       /\ admitted' = IF trace
                       THEN {x \in admitted \cup AdmittedBy(RA, data, seq_num, is_last) :
                                x >= i.r.next_byte_idx}
                       ELSE admitted
       /\ ret' = Ret("insert", i.res, 0, 0, 0)
       /\ UNCHANGED <<consumed, srcVars, extVars>>

\* ra.read(buf) / stream.read(buf) with |buf| = buflen
Read(buflen, trace) ==
    LET x == read(output, buflen)
    IN /\ output' = x.bs
       /\ consumed' = IF trace THEN consumed \o x.data ELSE consumed
       /\ ret' = Ret("read", "Ok", x.n, 0, 0)
       /\ UNCHANGED <<segments, next_byte_idx, last_byte_idx, last_recvd,
                      accepted, one_end, admitted, srcVars, extVars>>

\* stream.write(buf)
Write(buf) ==
    LET w == write(output, buf)
    IN /\ output.bytes_written < MaxWritten
       /\ output' = w.bs
       /\ accepted' = accepted \o Slice(buf, 0, w.n)
       /\ ret' = Ret("write", IF w.err THEN "Err" ELSE "Ok", w.n, Len(buf),
                     remaining_capacity(output))
       /\ UNCHANGED <<segments, next_byte_idx, last_byte_idx, last_recvd,
                      consumed, one_end, admitted, srcVars, extVars>>

\* stream.pop_output(len): the popped bytes are gone for the consumer
PopOutput(len) ==
    LET p == pop_output(output, len)
    IN /\ output' = p.bs
       /\ consumed' = consumed \o Slice(output.buffer, 0, p.n)
       /\ ret' = Ret("pop_output", "Ok", p.n, 0, 0)
       /\ UNCHANGED <<segments, next_byte_idx, last_byte_idx, last_recvd,
                      accepted, one_end, admitted, srcVars, extVars>>

\* stream.peek_output(amount) alone
PeekOutput(amount) ==
    /\ ret' = Ret("peek_output", "Ok", Len(peek_output(output, amount)), 0, 0)
    /\ UNCHANGED <<segments, output, next_byte_idx, last_byte_idx, last_recvd,
                   accepted, consumed, one_end, admitted, srcVars, extVars>>

\* the consumer of byte_stream_speed_test: peeked = peek_output(to_read);
\* output_buffer.extend(peeked); pop_output(to_read)
PeekThenPop(to_read) ==
    LET peeked == peek_output(output, to_read)
        p == pop_output(output, to_read)
    IN /\ output' = p.bs
       /\ consumed' = consumed \o peeked
       /\ ret' = Ret("peek_pop", "Ok", p.n, 0, 0)
       /\ UNCHANGED <<segments, next_byte_idx, last_byte_idx, last_recvd,
                      accepted, one_end, admitted, srcVars, extVars>>

\* stream.close()
Close ==
    /\ output' = close(output)
    /\ ret' = Ret("close", "Ok", 0, 0, 0)
    /\ UNCHANGED <<segments, next_byte_idx, last_byte_idx, last_recvd,
                   accepted, consumed, one_end, admitted, srcVars, extVars>>

\* ------------------------------------------------------------------ specifications
\* Reassembler fed arbitrary data
InsertAny ==
    \E data \in SeqsUpTo(Byte, MaxLen), seq_num \in 0..MaxIdx, is_last \in BOOLEAN :
        Insert(data, seq_num, is_last, FALSE)

ReadAny == \E buflen \in 1..MaxCap : Read(buflen, FALSE)
ReadTraced == \E buflen \in 1..MaxCap : Read(buflen, TRUE)

Init ==
    /\ NoSource /\ NoDup /\ NoWrap /\ NoReceiver /\ NoSocket /\ NoConn /\ NoCodec
    /\ \E capacity \in 0..MaxCap : InitWith(capacity)
Next == InsertAny \/ ReadAny
Spec == Init /\ [][Next]_vars

\* Reassembler fed segments cut from one source sequence
InsertSource ==
    \E seq_num \in 0..MaxIdx, len \in 0..MaxLen, is_last \in BOOLEAN :
        Insert(Source(seq_num, len), seq_num, is_last, TRUE)

NextSrc == InsertSource \/ ReadTraced
SpecSrc == Init /\ [][NextSrc]_vars

\* ByteStream alone
WriteAny == \E buf \in SeqsUpTo(Byte, MaxLen) : Write(buf)
PopAny == \E len \in 1..MaxCap : PopOutput(len)
PeekAny == \E amount \in 1..MaxCap : PeekOutput(amount)
PeekThenPopAny == \E to_read \in 1..MaxCap : PeekThenPop(to_read)

NextBS == WriteAny \/ ReadTraced \/ PopAny \/ PeekAny \/ PeekThenPopAny \/ Close
SpecBS == Init /\ [][NextBS]_vars

\* A finite source of src_len bytes cut into the segments of segs, which
\* together cover [0, src_len); is_last is set on the segments ending at src_len
\* (as in test_random_shuffle), and any of them may be offered again.
AllSegs(N) ==
    {<<f, l>> \in (0..N) \X (0..MaxLen) : f + l <= N /\ (l > 0 \/ f = N)}

AnySeg == UNION {AllSegs(N) : N \in 0..MaxSrc}

Covers(S, N) ==
    /\ \A i \in 0..(N - 1) : \E seg \in S : seg[1] <= i /\ i < seg[1] + seg[2]
    /\ \E seg \in S : seg[1] + seg[2] = N

InsertSeg(seg) ==
    /\ seg \in segs
    /\ \E i \in {insert(RA, Source(seg[1], seg[2]), seg[1],
                         seg[1] + seg[2] = src_len)} :
       /\ SetRA(i.r)
       /\ accepted' = accepted \o i.wrote
       /\ one_end' = one_end
       /\ inserted' = inserted \cup {seg}
       /\ ret' = Ret("insert", i.res, 0, 0, 0)
       /\ UNCHANGED <<consumed, src_len, segs, admitted, extVars>>

InsertSegAny == \E seg \in AnySeg : InsertSeg(seg)

InitCover ==
    /\ NoDup /\ NoWrap /\ NoReceiver /\ NoSocket /\ NoConn /\ NoCodec
    /\ \E capacity \in 0..MaxSrc : InitWith(capacity)
    /\ src_len \in 0..MaxSrc
    /\ segs \in {S \in SUBSET AllSegs(src_len) :
                    Cardinality(S) <= MaxSegs /\ Covers(S, src_len)}
    /\ inserted = {}

NextCover == InsertSegAny \/ ReadTraced
SpecCover == InitCover /\ [][NextCover]_vars

\* The same source with every segment offered again and again (the
\* retransmissions of test_insert_beyond_capacity), to a stream of capacity >= 1.
OfferSeg(seg) ==
    /\ seg \in segs
    /\ \E i \in {insert(RA, Source(seg[1], seg[2]), seg[1],
                         seg[1] + seg[2] = src_len)} :
       /\ SetRA(i.r)
       /\ accepted' = accepted \o i.wrote
       /\ ret' = Ret("insert", i.res, 0, 0, 0)
       /\ UNCHANGED <<consumed, one_end, admitted, srcVars, extVars>>

OfferSegAny == \E seg \in AnySeg : OfferSeg(seg)

InitLive ==
    /\ NoDup /\ NoWrap /\ NoReceiver /\ NoSocket /\ NoConn /\ NoCodec
    /\ \E capacity \in 1..MaxCap : InitWith(capacity)
    /\ src_len \in 1..MaxSrc
    /\ segs \in {S \in SUBSET AllSegs(src_len) :
                    Cardinality(S) < MaxSegs /\ Covers(S, src_len)}
    /\ inserted = {}

NextLive == OfferSegAny \/ ReadTraced

\* The consumer keeps reading and every segment keeps being offered.
Retransmission ==
    /\ WF_vars(ReadTraced)
    /\ \A seg \in AnySeg : WF_vars(OfferSeg(seg))
SpecLive == InitLive /\ [][NextLive]_vars /\ Retransmission

\* A sequence of inserts of slices of one source, with any is_last flags, in
\* which one insert, dup, is issued again (any number of times, at any later
\* point) with identical arguments, as in test_dup_at_same_index and
\* test_dup_random_indexes; there are no reads.
InsertArgs ==
    {<<Source(seq_num, len), seq_num, is_last>> :
        seq_num \in 0..MaxIdx, len \in 0..MaxLen, is_last \in BOOLEAN}

Issue(data, seq_num, is_last) ==
    \E i \in {insert(RA, data, seq_num, is_last)} :
       /\ SetRA(i.r)
       /\ one_end' = (one_end /\ (is_last /\ last_recvd
                                    => last_byte_idx = Some(seq_num + Len(data))))
       /\ dup_issued' = (dup_issued \/ dup = <<data, seq_num, is_last>>)
       /\ ret' = Ret("insert", i.res, 0, 0, 0)
       /\ UNCHANGED <<accepted, consumed, admitted, srcVars, dup, w32, rcvVars, tcpVars>>

IssueAny == \E args \in InsertArgs : Issue(args[1], args[2], args[3])

Reissue ==
    /\ dup_issued
    /\ \E i \in {insert(RA, dup[1], dup[2], dup[3])} :
       /\ SetRA(i.r)
       /\ one_end' = (one_end /\ (dup[3] /\ last_recvd
                                    => last_byte_idx = Some(dup[2] + Len(dup[1]))))
       /\ ret' = Ret("reissue", i.res, 0, 0, 0)
       /\ UNCHANGED <<accepted, consumed, admitted, srcVars, dupVars, w32, rcvVars, tcpVars>>

InitIdem ==
    /\ NoSource /\ NoWrap /\ NoReceiver /\ NoSocket /\ NoConn /\ NoCodec
    /\ dup \in InsertArgs
    /\ dup_issued = FALSE
    /\ \E capacity \in 0..MaxCap : InitWith(capacity)

NextIdem == IssueAny \/ Reissue
SpecIdem == InitIdem /\ [][NextIdem]_vars

\* Wrap32 alone: a value is made by wrap(n, isn) or by new(value) and then
\* unwrapped against any checkpoint; checks tells whether the build panics on
\* integer overflow (debug) or wraps (release).
WrapOp(n) ==
    LET w == wrap(n, w32.isn, w32.checks)
    IN /\ w32' = [w32 EXCEPT !.op = "wrap", !.n = Some(n), !.value = w.value,
                             !.panic = w.panic, !.checkpoint = 0, !.abs = 0]
       /\ UNCHANGED <<raVars, accepted, consumed, one_end, ret, admitted,
                      srcVars, dupVars, rcvVars, tcpVars>>

NewOp(value) ==
    /\ w32' = [w32 EXCEPT !.op = "new", !.n = None, !.value = Wrap32_new(value),
                          !.panic = FALSE, !.checkpoint = 0, !.abs = 0]
    /\ UNCHANGED <<raVars, accepted, consumed, one_end, ret, admitted,
                   srcVars, dupVars, rcvVars, tcpVars>>

UnwrapOp(checkpoint) ==
    LET u == unwrap(w32.value, w32.isn, checkpoint, w32.checks)
    IN /\ w32.op \in {"wrap", "new"} /\ ~w32.panic
       /\ w32' = [w32 EXCEPT !.op = "unwrap", !.checkpoint = checkpoint,
                             !.abs = u.abs, !.panic = u.panic]
       /\ UNCHANGED <<raVars, accepted, consumed, one_end, ret, admitted,
                      srcVars, dupVars, rcvVars, tcpVars>>

WrapAny == \E n \in 0..(U64_SIZE - 1) : WrapOp(n)
NewAny == \E value \in 0..(WRAP_SIZE - 1) : NewOp(value)
UnwrapAny == \E checkpoint \in 0..(U64_SIZE - 1) : UnwrapOp(checkpoint)

InitWrap ==
    /\ NoSource /\ NoDup /\ NoReceiver /\ NoSocket /\ NoConn /\ NoCodec
    /\ InitWith(0)
    /\ \E isn_value \in 0..(WRAP_SIZE - 1), checks \in BOOLEAN :
          w32 = [op |-> "new", isn |-> isn_value, checks |-> checks, n |-> None,
                 value |-> 0, panic |-> FALSE, checkpoint |-> 0, abs |-> 0]

NextWrap == WrapAny \/ NewAny \/ UnwrapAny
SpecWrap == InitWrap /\ [][NextWrap]_vars

\* A TcpReceiver built with a capacity and an isn at either end of the
\* sequence space, handed segments whose sequence numbers are the first few
\* after the isn (wrapping around), with any flags; byte j of a payload tells
\* its sequence number.
SeqPayload(seq_no, len) == [j \in 1..len |-> ((seq_no + j - 1) % WRAP_SIZE) + 1]

\* the checkpoint of receive_segment is next_byte_idx, far below the top of
\* the u64 range: checkpoint + HALF_WRAP never overflows in either build
OverflowChecks == TRUE

RCV == [isn |-> isn, r |-> RA, advertised_window |-> advertised_window]

ReceiveSegment(seq_no, payload, syn, fin) ==
    /\ next_byte_idx < MaxNext
    /\ \E x \in {receive_segment(RCV, seq_no, payload, syn, fin, OverflowChecks)} :
       /\ SetRA(x.rcv.r)
       /\ advertised_window' = x.rcv.advertised_window
       /\ syn_seq' = IF syn THEN Some(seq_no) ELSE syn_seq
       /\ one_end' = (one_end /\ (~syn /\ fin /\ last_recvd
                                    => last_byte_idx = Some(x.at + Len(payload))))
       /\ ret' = [op |-> "receive_segment", res |-> x.res, n |-> Len(x.data),
                  len |-> Len(payload), seq_no |-> seq_no, syn |-> syn,
                  fin |-> fin, at |-> x.at, before |-> next_byte_idx]
       /\ UNCHANGED <<isn, accepted, consumed, admitted, srcVars, dupVars, w32, tcpVars>>

SeqNos == {(isn + d) % WRAP_SIZE : d \in 0..RcvSpan}

\* a SYN segment, without payload
ReceiveSyn == \E seq_no \in SeqNos : ReceiveSegment(seq_no, <<>>, TRUE, FALSE)

\* a segment without SYN, with or without FIN
ReceiveData ==
    \E seq_no \in SeqNos, len \in 0..MaxLen, fin \in BOOLEAN :
        ReceiveSegment(seq_no, SeqPayload(seq_no, len), FALSE, fin)

InitRcv ==
    /\ NoSource /\ NoDup /\ NoWrap /\ NoSocket /\ NoConn /\ NoCodec
    /\ \E capacity \in 1..RcvCap : InitWith(capacity)
    /\ isn \in {0, WRAP_SIZE - 1}
    /\ advertised_window = output.capacity
    /\ syn_seq = None

\* receiver.generate_ack()
GenerateAck ==
    LET a == generate_ack(RCV)
    IN /\ ret' = [op |-> "generate_ack", ack_no |-> a.ack_no, window |-> a.window]
       /\ UNCHANGED <<raVars, accepted, consumed, one_end, admitted, srcVars,
                      dupVars, w32, rcvVars, tcpVars>>

NextRcv == ReceiveSyn \/ ReceiveData \/ GenerateAck
SpecRcv == InitRcv /\ [][NextRcv]_vars

\* The same receiver with the histories kept: consumed is the concatenation
\* of the data the calls of receive_segment returned, accepted that of the
\* bytes they committed to the stream.
ReceiveLogged(seq_no, payload, syn, fin) ==
    /\ next_byte_idx < MaxNext
    /\ \E x \in {receive_segment(RCV, seq_no, payload, syn, fin, OverflowChecks)} :
       /\ SetRA(x.rcv.r)
       /\ advertised_window' = x.rcv.advertised_window
       /\ syn_seq' = IF syn THEN Some(seq_no) ELSE syn_seq
       /\ consumed' = consumed \o x.data
       /\ accepted' = accepted \o x.wrote
       /\ ret' = [op |-> "receive_segment", res |-> x.res, n |-> Len(x.data),
                  len |-> Len(payload), seq_no |-> seq_no, syn |-> syn,
                  fin |-> fin, at |-> x.at, before |-> next_byte_idx]
       /\ UNCHANGED <<isn, one_end, admitted, srcVars, dupVars, w32, tcpVars>>

ReceiveSynLogged == \E seq_no \in SeqNos : ReceiveLogged(seq_no, <<>>, TRUE, FALSE)

ReceiveDataLogged ==
    \E seq_no \in SeqNos, len \in 0..MaxLen, fin \in BOOLEAN :
        ReceiveLogged(seq_no, SeqPayload(seq_no, len), FALSE, fin)

NextRcvLog == ReceiveSynLogged \/ ReceiveDataLogged
SpecRcvLog == InitRcv /\ [][NextRcvLog]_vars

\* ------------------------------------------------------------------ TcpSocket
\* The socket of tcp/socket: the control block, the timer and the type state
\* as one record.  A segment is a record of the header fields the socket sets
\* or reads; the Instant stored beside each payload of sent_segments is left
\* out, time is not modelled.
TcpSocket_new(sender_isn, receiver_isn) ==
    [state |-> "Closed", seq_no |-> Wrap32_new(sender_isn),
     ack_no |-> Wrap32_new(receiver_isn), window_size |-> 1024,
     src_ip |-> "local_ip", src_port |-> "local_port",
     dst_ip |-> None, dst_port |-> None,
     sent_segments |-> EmptyMap, last_seq_no |-> None, timer |-> "idle"]

\* send_segment as it would be with the sequence number left where it is
send_segment_no_advance(s, flags, payload) ==
    IF s.dst_ip = None \/ s.dst_port = None
    THEN [sock |-> s, res |-> "Err", out |-> <<>>]
    ELSE LET segment == [src_ip |-> s.src_ip, src_port |-> s.src_port,
                         dst_ip |-> s.dst_ip[1], dst_port |-> s.dst_port[1],
                         ack_no |-> s.ack_no, seq_no |-> s.seq_no,
                         flags |-> flags, window |-> s.window_size,
                         payload |-> payload]
             sent == MapInsert(s.sent_segments, s.seq_no, payload)
         IN [sock |-> [s EXCEPT !.sent_segments = sent,
                                !.timer = IF Cardinality(DOMAIN sent) = 1
                                          THEN "running" ELSE @],
             res |-> "Ok", out |-> <<segment>>]

\* send_segment as it would be if the segment were stored and the timer
\* started before the destination is looked at
send_segment_store_first(s, flags, payload) ==
    LET sent == MapInsert(s.sent_segments, s.seq_no, payload)
        stored == [s EXCEPT !.sent_segments = sent,
                            !.timer = IF Cardinality(DOMAIN sent) = 1
                                      THEN "running" ELSE @]
    IN IF s.dst_ip = None \/ s.dst_port = None
       THEN [sock |-> stored, res |-> "Err", out |-> <<>>]
       ELSE send_segment_no_advance(s, flags, payload)

\* TcpSocket::send_segment: InvalidState without a destination; else the
\* segment carries tcb.ack_no, tcb.seq_no, the flags and the window, goes to
\* the Sender, is stored in sent_segments under tcb.seq_no, starts the timer
\* when it is the only stored one, and seq_no moves on by 1 + |payload| when
\* SYN or FIN is among the flags.
send_segment(s, flags, payload) ==
    IF s.dst_ip = None \/ s.dst_port = None
    THEN [sock |-> s, res |-> "Err", out |-> <<>>]
    ELSE LET segment == [src_ip |-> s.src_ip, src_port |-> s.src_port,
                         dst_ip |-> s.dst_ip[1], dst_port |-> s.dst_port[1],
                         ack_no |-> s.ack_no, seq_no |-> s.seq_no,
                         flags |-> flags, window |-> s.window_size,
                         payload |-> payload]
             sent == MapInsert(s.sent_segments, s.seq_no, payload)
             bytes_consumed == 1 + Len(payload)
         IN [sock |-> [s EXCEPT !.sent_segments = sent,
                                !.timer = IF Cardinality(DOMAIN sent) = 1
                                          THEN "running" ELSE @,
                                !.seq_no = IF flags \cap {"SYN", "FIN"} # {}
                                           THEN Wrap32_new(@ + Wrap32_new(bytes_consumed))
                                           ELSE @],
             res |-> "Ok", out |-> <<segment>>]

\* The methods that take the socket by value give back the next type state or
\* an error; after an error the caller holds no socket any more.
Dropped(s) == [s EXCEPT !.state = "Dropped"]

\* TcpSocket<Closed>::connect
connect(s, dst_ip, dst_port) ==
    LET sent == send_segment([s EXCEPT !.dst_ip = Some(dst_ip),
                                       !.dst_port = Some(dst_port)],
                             {"SYN"}, <<>>)
    IN IF sent.res = "Err"
       THEN [sock |-> Dropped(sent.sock), res |-> "Err", out |-> sent.out]
       ELSE [sock |-> [sent.sock EXCEPT !.state = "SynSent"], res |-> "Ok",
             out |-> sent.out]

\* TcpSocket<Closed>::listen
listen(s) == [s EXCEPT !.state = "Listen"]

\* TcpSocket<Listen>::accept, received being what Receiver::recv returned
accept(s, received) ==
    IF received # None /\ "SYN" \in received[1].flags
    THEN LET segment == received[1]
             sent == send_segment([s EXCEPT !.dst_ip = Some(segment.src_ip),
                                            !.dst_port = Some(segment.dst_port)],
                                  {"SYN", "ACK"}, <<>>)
         IN IF sent.res = "Err"
            THEN [sock |-> Dropped(sent.sock), res |-> "Err", out |-> sent.out]
            ELSE [sock |-> [sent.sock EXCEPT !.timer = "running",
                                             !.state = "SynRcvd"],
                  res |-> "Ok", out |-> sent.out]
    ELSE [sock |-> Dropped(s), res |-> "WouldBlock", out |-> <<>>]

\* TcpSocket<SynRcvd>::confirm
confirm(s, received) ==
    IF /\ received # None
       /\ "ACK" \in received[1].flags
       /\ received[1].ack_no = Wrap32_new(s.seq_no + Wrap32_new(1))
    THEN LET segment == received[1]
             sent == send_segment(
                         [s EXCEPT !.ack_no = Wrap32_new(segment.seq_no + Wrap32_new(1)),
                                   !.seq_no = segment.ack_no,
                                   !.window_size = segment.window],
                         {"ACK"}, <<>>)
         IN IF sent.res = "Err"
            THEN [sock |-> Dropped(sent.sock), res |-> "Err", out |-> sent.out]
            ELSE [sock |-> [sent.sock EXCEPT !.timer = "idle",
                                             !.state = "Established"],
                  res |-> "Ok", out |-> sent.out]
    ELSE [sock |-> Dropped(s), res |-> "WouldBlock", out |-> <<>>]

\* TcpSocket::retransmit_last_segment
retransmit_last_segment(s) ==
    IF s.last_seq_no # None /\ s.last_seq_no[1] \in DOMAIN s.sent_segments
    THEN send_segment([s EXCEPT !.sent_segments = MapRemove(@, s.last_seq_no[1])],
                      {"ACK"}, s.sent_segments[s.last_seq_no[1]])
    ELSE [sock |-> s, res |-> "Err", out |-> <<>>]

\* The socket is driven through its public methods: the transitions of the
\* type states, and the helpers of impl<State> TcpSocket<State>, which every
\* type state has.  MaxSent bounds the segments awaiting retransmission.
MaxSent == 2

SockIsns == {0, WRAP_SIZE - 1}
SockPayloads == {Source(0, len) : len \in 0..MaxLen}

\* what the peer may have sent: any flags, a sequence number at either end of
\* the sequence space, an acknowledgement of the first or second number after
\* the local ISN
RecvSegments ==
    [src_ip : {"peer_ip"}, src_port : {"peer_port"},
     dst_ip : {"local_ip"}, dst_port : {"local_port"},
     seq_no : SockIsns,
     ack_no : {Wrap32_new(sock_isn + 1), Wrap32_new(sock_isn + 2)},
     flags : {{}, {"SYN"}, {"ACK"}, {"SYN", "ACK"}},
     window : {1}, payload : {<<>>}]

baseVars == <<raVars, accepted, consumed, one_end, admitted, srcVars,
              dupVars, w32, rcvVars, codec>>

SockRet(op, res, received, payload) ==
    [op |-> op, res |-> res, received |-> received, payload |-> payload,
     before |-> sock.state]

SockStep(op, r, received, payload) ==
    /\ sock' = r.sock
    /\ wire' = r.out
    /\ ret' = SockRet(op, r.res, received, payload)
    /\ UNCHANGED <<sock_isn, crcv, baseVars>>

New ==
    /\ sock.state = "Dropped"
    /\ \E sender_isn \in SockIsns, receiver_isn \in SockIsns :
          /\ sock' = TcpSocket_new(sender_isn, receiver_isn)
          /\ sock_isn' = sender_isn
          /\ wire' = <<>>
          /\ ret' = SockRet("new", "Ok", None, <<>>)
          /\ UNCHANGED <<crcv, baseVars>>

Connect ==
    /\ sock.state = "Closed"
    /\ SockStep("connect", connect(sock, "peer_ip", "peer_port"), None, <<>>)

Listen ==
    /\ sock.state = "Closed"
    /\ SockStep("listen", [sock |-> listen(sock), res |-> "Ok", out |-> <<>>],
                None, <<>>)

Accept ==
    /\ sock.state = "Listen"
    /\ \E received \in {None} \cup {Some(g) : g \in RecvSegments} :
          SockStep("accept", accept(sock, received), received, <<>>)

Confirm ==
    /\ sock.state = "SynRcvd"
    /\ \E received \in {None} \cup {Some(g) : g \in RecvSegments} :
          SockStep("confirm", confirm(sock, received), received, <<>>)

Live == sock.state \in {"Closed", "Listen", "SynSent", "SynRcvd", "Established"}
Room == Cardinality(DOMAIN sock.sent_segments) <= MaxSent

SendSyn ==
    Live /\ Room /\ SockStep("send_syn", send_segment(sock, {"SYN"}, <<>>), None, <<>>)
SendAck ==
    Live /\ Room /\ SockStep("send_ack", send_segment(sock, {"ACK"}, <<>>), None, <<>>)
SendSynAck ==
    Live /\ Room /\ SockStep("send_syn_ack", send_segment(sock, {"SYN", "ACK"}, <<>>),
                             None, <<>>)
SendFin ==
    Live /\ Room /\ SockStep("send_fin", send_segment(sock, {"FIN"}, <<>>), None, <<>>)
SendFinAck ==
    Live /\ Room /\ SockStep("send_fin_ack", send_segment(sock, {"FIN", "ACK"}, <<>>),
                             None, <<>>)
SendRst ==
    Live /\ Room /\ SockStep("send_rst", send_segment(sock, {"RST"}, <<>>), None, <<>>)
SendData ==
    /\ Live /\ Room
    /\ \E payload \in SockPayloads :
          SockStep("send_data", send_segment(sock, {"ACK"}, payload), None, payload)
RetransmitLastSegment ==
    Live /\ SockStep("retransmit_last_segment", retransmit_last_segment(sock),
                     None, <<>>)

InitSock ==
    /\ NoSource /\ NoDup /\ NoWrap /\ NoReceiver /\ NoConn /\ NoCodec
    /\ InitWith(0)
    /\ sock_isn \in SockIsns
    /\ \E receiver_isn \in SockIsns : sock = TcpSocket_new(sock_isn, receiver_isn)
    /\ wire = <<>>
NextSock ==
    \/ New \/ Connect \/ Listen \/ Accept \/ Confirm
    \/ SendSyn \/ SendAck \/ SendSynAck \/ SendFin \/ SendFinAck \/ SendRst
    \/ SendData \/ RetransmitLastSegment
SpecSock == InitSock /\ [][NextSock]_vars

\* ------------------------------------------------------------------ TCPReceiver (conn)
\* The receiver of conn/tcp_receiver.rs: state, reassembler, isn.  It calls
\* assemble_segment, first_unassembled, output and unassembled_bytes on its
\* reassembler, the methods of StreamReassembler (conn/stream_reassembler.rs),
\* which is the reassembler modelled here: a record of buffer, next_idx,
\* output, eof_received and unassembled_bytes_count.
SR_new(bs) ==
    [buffer |-> EmptyMap, next_idx |-> 0, output |-> bs,
     eof_received |-> FALSE, unassembled_bytes_count |-> 0]

\* StreamReassembler::assemble: while the buffer holds an entry at next_idx,
\* remove it, write it (unwrap: a failed write panics) and step over all of it
RECURSIVE assemble(_)
assemble(sr) ==
    IF sr.next_idx \in DOMAIN sr.buffer
    THEN LET data == sr.buffer[sr.next_idx]
             removed == [sr EXCEPT !.buffer = MapRemove(@, sr.next_idx)]
             w == write(sr.output, data)
         IN IF w.err
            THEN [sr |-> removed, panic |-> TRUE]
            ELSE assemble([removed EXCEPT !.output = w.bs,
                                          !.next_idx = @ + Len(data),
                                          !.unassembled_bytes_count = @ - Len(data)])
    ELSE [sr |-> sr, panic |-> FALSE]

\* StreamReassembler::assemble_segment
assemble_segment(sr, idx, data, is_eof) ==
    LET marked == [sr EXCEPT !.eof_received = @ \/ is_eof]
        overlap == sr.next_idx - idx
    IN IF idx < sr.next_idx /\ overlap >= Len(data)
       THEN [sr |-> marked, panic |-> FALSE]
       ELSE LET rest == IF idx < sr.next_idx THEN Slice(data, overlap, Len(data))
                        ELSE data
                a == assemble([marked EXCEPT
                                  !.unassembled_bytes_count = @ + Len(rest),
                                  !.buffer = MapInsert(@, idx, rest)])
            IN IF a.panic
               THEN a
               ELSE [sr |-> IF a.sr.eof_received /\ DOMAIN a.sr.buffer = {}
                            THEN [a.sr EXCEPT !.output = close(@)]
                            ELSE a.sr,
                     panic |-> FALSE]

\* TCPReceiver::new
TCPReceiver_new(capacity) ==
    [state |-> "Listen", reassembler |-> SR_new(BS_new(capacity)), isn |-> None,
     panicked |-> FALSE]

\* TCPReceiver::unwrap_seq_num
unwrap_seq_num(c, seq_num) ==
    LET isn_value == IF c.isn = None THEN 0 ELSE c.isn[1]
    IN (seq_num - isn_value) % WRAP_SIZE

\* TCPReceiver::handle_syn
handle_syn(c, seq_num) == [c EXCEPT !.isn = Some(seq_num), !.state = "SynRcvd"]

\* TCPReceiver::handle_fin
handle_fin(c) ==
    CASE c.state = "Established" -> [c EXCEPT !.state = "CloseWait"]
      [] c.state = "FinWait1" -> [c EXCEPT !.state = "Closing"]
      [] c.state = "FinWait2" -> [c EXCEPT !.state = "TimeWait"]
      [] OTHER -> c

\* TCPReceiver::handle_segment
handle_segment(c, seq_num, data, fin) ==
    IF c.isn # None
    THEN LET a == assemble_segment(c.reassembler, unwrap_seq_num(c, seq_num),
                                   data, fin)
             assembled == [c EXCEPT !.reassembler = a.sr]
         IN IF a.panic
            THEN [assembled EXCEPT !.panicked = TRUE]
            ELSE IF fin THEN handle_fin(assembled)
                 ELSE [assembled EXCEPT !.state = "Established"]
    ELSE c

\* TCPReceiver::receive_segment
conn_receive_segment(c, seq_num, data, syn, fin) ==
    CASE c.state = "Listen" -> IF syn THEN handle_syn(c, seq_num) ELSE c
      [] c.state \in {"SynRcvd", "Established"} ->
            IF syn THEN c ELSE handle_segment(c, seq_num, data, fin)
      [] c.state \in {"CloseWait", "FinWait1", "FinWait2"} ->
            handle_segment(c, seq_num, data, fin)
      [] OTHER -> c

\* A receiver of capacity 1..RcvCap handed segments with any flags; their
\* sequence numbers are either end of the sequence space until an ISN is
\* latched, and the first few from the ISN on after that.  MaxUnassembled
\* bounds unassembled_bytes_count, which the code lets grow without limit.
MaxUnassembled == 3
ConnSpan == 1

ConnReceiveSegment(seq_num, data, syn, fin) ==
    /\ ~crcv.panicked
    /\ crcv.reassembler.unassembled_bytes_count + Len(data) <= MaxUnassembled
    /\ crcv' = conn_receive_segment(crcv, seq_num, data, syn, fin)
    /\ ret' = [op |-> "conn_receive_segment", seq_num |-> seq_num, data |-> data,
               syn |-> syn, fin |-> fin, before |-> crcv.state]
    /\ UNCHANGED <<sockVars, baseVars>>

ConnSeqNos ==
    IF crcv.isn = None THEN SockIsns
    ELSE {(crcv.isn[1] + d) % WRAP_SIZE : d \in 0..ConnSpan}

ConnReceiveAny ==
    \E seq_num \in ConnSeqNos, len \in 0..MaxLen, syn \in BOOLEAN, fin \in BOOLEAN :
        ConnReceiveSegment(seq_num, SeqPayload(seq_num, len), syn, fin)

InitConn ==
    /\ NoSource /\ NoDup /\ NoWrap /\ NoReceiver /\ NoSocket /\ NoCodec
    /\ InitWith(0)
    /\ \E capacity \in 1..RcvCap : crcv = TCPReceiver_new(capacity)
NextConn == ConnReceiveAny
SpecConn == InitConn /\ [][NextConn]_vars

\* ------------------------------------------------------------------ packet codec
\* IPHeader (ip/ip_header.rs), TCPHeader (tcp/tcp_header.rs) and wrap / unwrap
\* (packet/tcp_over_ip.rs) at their real widths: a byte is 0..255, a buffer a
\* sequence of bytes, a u16 field 0..2^16 - 1.  A 32-bit sequence number is
\* the pair <<high, low>> of its 16-bit halves, an address the tuple of its
\* four octets, a set of flags the set of their names.
U16 == 2 ^ 16
BE16(v) == <<v \div 256, v % 256>>
FromBE16(hi, lo) == hi * 256 + lo
Zeros(n) == [j \in 1..n |-> 0]

RECURSIVE BitOr(_, _)
BitOr(a, b) ==
    IF a = 0 THEN b
    ELSE IF b = 0 THEN a
    ELSE (IF a % 2 = 1 \/ b % 2 = 1 THEN 1 ELSE 0) + 2 * BitOr(a \div 2, b \div 2)

\* buf[at .. at + |bytes|) = bytes, at counted from 0
Put(buf, at, bytes) ==
    [j \in 1..Len(buf) |->
        IF at < j /\ j <= at + Len(bytes) THEN bytes[j - at] ELSE buf[j]]

\* the sum of the 16-bit big-endian words of data, from the 1-based position i
RECURSIVE SumWords(_, _)
SumWords(data, i) ==
    IF i > Len(data) THEN 0
    ELSE FromBE16(data[i], data[i + 1]) + SumWords(data, i + 2)

\* IPFlags: RF, DF, MF are the top three bits of a u16
IPFlagBit(f) == CASE f = "RF" -> 2 ^ 15 [] f = "DF" -> 2 ^ 14 [] f = "MF" -> 2 ^ 13
IPFlags_bits(flags) ==
    (IF "RF" \in flags THEN IPFlagBit("RF") ELSE 0)
    + (IF "DF" \in flags THEN IPFlagBit("DF") ELSE 0)
    + (IF "MF" \in flags THEN IPFlagBit("MF") ELSE 0)
\* IPFlags::pack: bits | (frag_offset & 0x1fff)
IPFlags_pack(flags, frag_offset) == IPFlags_bits(flags) + (frag_offset % (2 ^ 13))
\* IPFlags::unpack
IPFlags_unpack(bits) ==
    [flags |-> {f \in {"RF", "DF", "MF"} : (bits \div IPFlagBit(f)) % 2 = 1},
     frag_offset |-> bits % (2 ^ 13)]

\* IPHeader::checksum: the words summed as u32, folded once, complemented
IPHeader_checksum(data) ==
    LET sum == SumWords(data, 1)
        folded == (sum % U16) + (sum \div U16)
    IN (U16 - 1) - (folded % U16)

\* the 20 bytes IPHeader::serialize writes before it fills in the checksum
IPHeader_zeroed(h) ==
    <<BitOr((h.version * 16) % 256, h.ihl), h.tos>>
    \o BE16(h.total_len) \o BE16(h.id)
    \o BE16(IPFlags_pack(h.flags, h.frag_offset))
    \o <<h.ttl, h.protocol, 0, 0>> \o h.src_ip \o h.dst_ip

\* IPHeader::serialize into buf: BufferTooSmall under 20 bytes
IPHeader_serialize(h, buf) ==
    IF Len(buf) < 20
    THEN [res |-> "BufferTooSmall", buf |-> buf]
    ELSE LET zeroed == Put(buf, 0, IPHeader_zeroed(h))
             checksum == IPHeader_checksum(SubSeq(zeroed, 1, 20))
         IN [res |-> "Ok", buf |-> Put(zeroed, 10, BE16(checksum))]

\* IPHeader::parse
IPHeader_parse(buf) ==
    IF Len(buf) < 20
    THEN [res |-> "BufferTooSmall"]
    ELSE IF IPHeader_checksum(SubSeq(buf, 1, 20)) # 0
    THEN [res |-> "BadChecksum"]
    ELSE LET unpacked == IPFlags_unpack(FromBE16(buf[7], buf[8]))
         IN [res |-> "Ok",
             h |-> [version |-> buf[1] \div 16, ihl |-> buf[1] % 16, tos |-> buf[2],
                    total_len |-> FromBE16(buf[3], buf[4]),
                    id |-> FromBE16(buf[5], buf[6]),
                    flags |-> unpacked.flags, frag_offset |-> unpacked.frag_offset,
                    ttl |-> buf[9], protocol |-> buf[10],
                    checksum |-> FromBE16(buf[11], buf[12]),
                    src_ip |-> SubSeq(buf, 13, 16), dst_ip |-> SubSeq(buf, 17, 20)]]

\* TcpFlags: CWR, ECE, URG, ACK, PSH, RST, SYN, FIN from bit 7 down to bit 0
TcpFlagNames == <<"FIN", "SYN", "RST", "PSH", "ACK", "URG", "ECE", "CWR">>
TcpFlags_bits(flags) ==
    LET bit(j) == IF TcpFlagNames[j] \in flags THEN 2 ^ (j - 1) ELSE 0
    IN bit(1) + bit(2) + bit(3) + bit(4) + bit(5) + bit(6) + bit(7) + bit(8)
TcpFlags_from_bits_truncate(bits) ==
    {TcpFlagNames[j] : j \in {i \in 1..8 : (bits \div (2 ^ (i - 1))) % 2 = 1}}

\* TCPHeader::checksum over data (not empty) with the pseudo-header of iph:
\* summed as u32, folded once, complemented
TCPHeader_sum(data, iph) ==
    LET pseudo == FromBE16(iph.src_ip[1], iph.src_ip[2])
                  + FromBE16(iph.src_ip[3], iph.src_ip[4])
                  + FromBE16(iph.dst_ip[1], iph.dst_ip[2])
                  + FromBE16(iph.dst_ip[3], iph.dst_ip[4])
                  + iph.protocol + Len(data)
        even == IF Len(data) % 2 = 0 THEN data ELSE data \o <<0>>
    IN pseudo + SumWords(even, 1)

TCPHeader_checksum(data, iph) ==
    LET sum == TCPHeader_sum(data, iph)
        folded == (sum % U16) + (sum \div U16)
    IN (U16 - 1) - (folded % U16)

\* what TCPHeader::serialize writes into buf before it fills in the checksum
TCPHeader_written(h, buf) ==
    LET fixed == BE16(h.src_port) \o BE16(h.dst_port)
                 \o BE16(h.seq_no[1]) \o BE16(h.seq_no[2])
                 \o BE16(h.ack_no[1]) \o BE16(h.ack_no[2])
                 \o <<BitOr((h.data_offset * 16) % 256, h.reserved),
                      TcpFlags_bits(h.flags)>>
                 \o BE16(h.window) \o <<0, 0>> \o BE16(h.urgent)
    IN Put(Put(Put(buf, 0, fixed), 20, h.options), h.data_offset * 4, h.payload)

\* TCPHeader::serialize into buf: BufferTooSmall when buf is shorter than
\* header and payload; a slice that does not fit its place panics
TCPHeader_serialize(h, buf, iph) ==
    LET header_len == h.data_offset * 4
        total_len == header_len + Len(h.payload)
    IN IF Len(buf) < total_len
       THEN [res |-> "BufferTooSmall", buf |-> buf]
       ELSE IF \/ Len(buf) < 20
               \/ h.options # <<>> /\ Len(h.options) # header_len - 20
               \/ total_len = 0
       THEN [res |-> "Panic", buf |-> buf]
       ELSE LET written == TCPHeader_written(h, buf)
                checksum == TCPHeader_checksum(SubSeq(written, 1, total_len), iph)
            IN [res |-> "Ok", buf |-> Put(written, 16, BE16(checksum))]

\* TCPHeader::parse
TCPHeader_parse(buf, iph) ==
    IF Len(buf) < 20
    THEN [res |-> "BufferTooSmall"]
    ELSE LET data_offset == buf[13] \div 16
             header_len == data_offset * 4
         IN IF Len(buf) < header_len
            THEN [res |-> "BufferTooSmall"]
            ELSE IF TCPHeader_checksum(buf, iph) # 0
            THEN [res |-> "BadChecksum"]
            ELSE [res |-> "Ok",
                  h |-> [src_port |-> FromBE16(buf[1], buf[2]),
                         dst_port |-> FromBE16(buf[3], buf[4]),
                         seq_no |-> <<FromBE16(buf[5], buf[6]), FromBE16(buf[7], buf[8])>>,
                         ack_no |-> <<FromBE16(buf[9], buf[10]), FromBE16(buf[11], buf[12])>>,
                         data_offset |-> data_offset, reserved |-> buf[13] % 16,
                         flags |-> TcpFlags_from_bits_truncate(buf[14]),
                         window |-> FromBE16(buf[15], buf[16]),
                         checksum |-> FromBE16(buf[17], buf[18]),
                         urgent |-> FromBE16(buf[19], buf[20]),
                         options |-> IF header_len > 20 THEN SubSeq(buf, 21, header_len)
                                     ELSE <<>>,
                         payload |-> IF Len(buf) > header_len
                                     THEN SubSeq(buf, header_len + 1, Len(buf))
                                     ELSE <<>>]]

\* packet::wrap: a zeroed vector of 20 + data_offset * 4 + |payload| bytes,
\* the IP header serialized into its first 20, the TCP header into the rest
packet_wrap(iph, tcph) ==
    LET tcp_len == tcph.data_offset * 4 + Len(tcph.payload)
        packet == Zeros(20 + tcp_len)
        ip == IPHeader_serialize(iph, SubSeq(packet, 1, 20))
    IN IF ip.res # "Ok"
       THEN [res |-> ip.res, packet |-> <<>>]
       ELSE LET tcp == TCPHeader_serialize(tcph, SubSeq(packet, 21, Len(packet)), iph)
            IN IF tcp.res # "Ok"
               THEN [res |-> tcp.res, packet |-> <<>>]
               ELSE [res |-> "Ok", packet |-> ip.buf \o tcp.buf]

\* packet::unwrap: the slices packet[0..20] and packet[20..total_len] are
\* taken before the parsers look at any length, and panic out of range
packet_unwrap(packet) ==
    IF Len(packet) < 20
    THEN [res |-> "Panic"]
    ELSE LET ip == IPHeader_parse(SubSeq(packet, 1, 20))
         IN IF ip.res # "Ok"
            THEN [res |-> ip.res]
            ELSE IF ip.h.total_len < 20 \/ ip.h.total_len > Len(packet)
            THEN [res |-> "Panic"]
            ELSE LET tcp == TCPHeader_parse(SubSeq(packet, 21, ip.h.total_len), ip.h)
                 IN IF tcp.res # "Ok"
                    THEN [res |-> tcp.res]
                    ELSE [res |-> "Ok", iph |-> ip.h, tcph |-> tcp.h]

\* The codec keeps nothing between calls, so each run is one header or pair
\* taken from the start.  A checksum goes wrong only where the
\* 16-bit sum sits right below a carry, so one u16 field of each header (the
\* id, the window) takes the values that put the sum there, next to the ends
\* of its range; EdgeSpan is how far below the carry they reach.
EdgeSpan == 2

Addrs == {<<10, 0, 0, 1>>, <<255, 255, 255, 255>>}

EdgeValues(sum_without) ==
    {0, U16 - 1}
    \cup {((U16 - 1) - (sum_without % U16) + U16 + d) % U16 : d \in (0 - EdgeSpan)..1}

IpHeaderWith(total_len, id, src_ip, dst_ip) ==
    [version |-> 4, ihl |-> 5, tos |-> 0, total_len |-> total_len, id |-> id,
     flags |-> {"DF"}, frag_offset |-> 0, ttl |-> 64, protocol |-> 6,
     checksum |-> 0, src_ip |-> src_ip, dst_ip |-> dst_ip]

IpHeaders(total_lens) ==
    UNION {{IpHeaderWith(total_len, id, src_ip, dst_ip) :
              id \in EdgeValues(SumWords(IPHeader_zeroed(
                         IpHeaderWith(total_len, 0, src_ip, dst_ip)), 1))} :
           total_len \in total_lens, src_ip \in Addrs, dst_ip \in Addrs}

TcpHeaderWith(flags, window, options, payload) ==
    [src_port |-> 80, dst_port |-> 50871, seq_no |-> <<0, 1>>,
     ack_no |-> <<U16 - 1, U16 - 1>>, data_offset |-> 5 + Len(options) \div 4,
     reserved |-> 0, flags |-> flags, window |-> window, checksum |-> 0,
     urgent |-> 0, options |-> options, payload |-> payload]

TcpHeaders(iph, flags, options, payload) ==
    LET h0 == TcpHeaderWith(flags, 0, options, payload)
        sum_without == TCPHeader_sum(
                           TCPHeader_written(h0, Zeros(h0.data_offset * 4 + Len(payload))),
                           iph)
    IN {TcpHeaderWith(flags, window, options, payload) :
           window \in EdgeValues(sum_without)}

\* well-formed pairs: options of 0 or 4 bytes, data_offset and total_len to match
HeaderPairs ==
    UNION {UNION {{<<iph, tcph>> : tcph \in TcpHeaders(iph, flags, options, payload)} :
                  iph \in IpHeaders({40 + Len(options) + Len(payload)})} :
           flags \in {{"ACK"}, {"SYN"}, {"ACK", "PSH"}},
           options \in {<<>>, <<1, 1, 8, 10>>},
           payload \in {Source(0, len) : len \in 0..MaxLen}}

CodecStep(c) ==
    /\ codec' = c
    /\ UNCHANGED <<raVars, accepted, consumed, one_end, ret, admitted, srcVars,
                   dupVars, w32, rcvVars, sockVars, crcv>>

\* iph.serialize(buf) into a buffer of 20 bytes
IpSerialize ==
    /\ codec.op = "none"
    /\ \E iph \in IpHeaders({20, 40, U16 - 1}) :
       \E r \in {IPHeader_serialize(iph, Zeros(20))} :
          CodecStep([op |-> "ip_serialize", from |-> "none", iph |-> iph,
                     packet |-> r.buf, res |-> r.res])

\* IPHeader::parse of the bytes just serialized
IpParse ==
    /\ codec.op = "ip_serialize"
    /\ \E r \in {IPHeader_parse(codec.packet)} :
          CodecStep([codec EXCEPT !.op = "ip_parse", !.from = "ip_serialize",
                                  !.res = r.res])

\* packet::wrap of a well-formed pair
Wrap ==
    /\ codec.op = "none"
    /\ \E pair \in HeaderPairs :
       \E r \in {packet_wrap(pair[1], pair[2])} :
          CodecStep([op |-> "wrap", from |-> "none", iph |-> pair[1],
                     tcph |-> pair[2], packet |-> r.packet, res |-> r.res])

\* a packet cut short on its way
Truncate ==
    /\ codec.op = "wrap" /\ codec.res = "Ok"
    /\ \E n \in {0, 19, 20, Len(codec.packet) - 1} :
          CodecStep([codec EXCEPT !.op = "truncate", !.from = "wrap",
                                  !.packet = SubSeq(@, 1, n)])

\* a packet whose IP header states another total length, checksum in order
Forge ==
    /\ codec.op = "wrap" /\ codec.res = "Ok"
    /\ \E total_len \in {0, 19, 20, Len(codec.packet) + 1} :
          CodecStep([codec EXCEPT
              !.op = "forge", !.from = "wrap",
              !.packet = Put(@, 0, IPHeader_serialize(
                                       [codec.iph EXCEPT !.total_len = total_len],
                                       Zeros(20)).buf)])

\* packet::unwrap of the bytes at hand
Unwrap ==
    /\ codec.op \in {"wrap", "truncate", "forge"} /\ codec.res = "Ok"
    /\ \E r \in {packet_unwrap(codec.packet)} :
          CodecStep([op |-> "unwrap", from |-> codec.op, iph |-> codec.iph,
                     tcph |-> codec.tcph, packet |-> codec.packet, res |-> r.res,
                     out |-> IF r.res = "Ok" THEN Some(<<r.iph, r.tcph>>) ELSE None])

InitCodec ==
    /\ NoSource /\ NoDup /\ NoWrap /\ NoReceiver /\ NoSocket /\ NoConn
    /\ InitWith(0)
    /\ NoCodec
NextCodec == IpSerialize \/ IpParse \/ Wrap \/ Truncate \/ Forge \/ Unwrap
SpecCodec == InitCodec /\ [][NextCodec]_vars

\* ------------------------------------------------------------------ overlapping inserts
\* the bytes the pending map holds for stream index i
PendingAt(r, i) ==
    {r.segments[k][i - k + 1] :
        k \in {j \in DOMAIN r.segments : j <= i /\ i < j + Len(r.segments[j])}}

\* the bytes the reassembler holds for stream index i: the committed byte
\* while it is unread in the stream, the pending bytes otherwise
HeldAt(r, i) ==
    IF i < r.next_byte_idx
    THEN IF i >= r.output.bytes_read /\ i - r.output.bytes_read < Len(r.output.buffer)
         THEN {r.output.buffer[i - r.output.bytes_read + 1]}
         ELSE {}
    ELSE PendingAt(r, i)

\* the stream indices with pending bytes
PendingIndices(r) ==
    UNION {k..(k + Len(r.segments[k]) - 1) : k \in DOMAIN r.segments}

\* ra.insert(data, seq_num, is_last) as the last call of a run: its arguments
\* and the reassembler it was called on are kept
InsertLast ==
    /\ ret.op # "insert_last"
    /\ \E data \in SeqsUpTo(Byte, MaxLen), seq_num \in 0..MaxIdx, is_last \in BOOLEAN :
         \E i \in {insert(RA, data, seq_num, is_last)} :
            /\ SetRA(i.r)
            /\ ret' = [op |-> "insert_last", res |-> i.res, data |-> data,
                       seq_num |-> seq_num, is_last |-> is_last, before |-> RA]
            /\ UNCHANGED <<accepted, consumed, one_end, admitted, srcVars, extVars>>

InsertEarlier == ret.op # "insert_last" /\ InsertAny
ReadEarlier == ret.op # "insert_last" /\ ReadAny

NextOver == InsertEarlier \/ ReadEarlier \/ InsertLast
SpecOver == Init /\ [][NextOver]_vars

\* ------------------------------------------------------------------ properties
Pending == bytes_pending(RA)
Buffered == output.bytes_written - output.bytes_read

\* C1: once every segment of a set covering [0, N) of one source has been
\* inserted (any order, overlaps allowed, is_last on the segments ending at N)
\* into a Reassembler of capacity >= N, the bytes committed to the stream are
\* exactly source[0..N) in order, nothing is pending, the stream is closed and
\* eof is reported as soon as the N bytes have been read.
C1_OrderingRegardlessOfInsertOrder ==
    (inserted = segs /\ output.capacity >= src_len) =>
        /\ accepted = Source(0, src_len)
        /\ Pending = 0
        /\ output.closed
        /\ consumed = Source(0, output.bytes_read)
        /\ (output.bytes_read = src_len => eof(output))

C1_Witness ==
    /\ inserted = segs /\ output.capacity >= src_len
    /\ src_len = MaxSrc /\ Cardinality(segs) >= 3
    /\ \E a \in segs, b \in segs : a[1] < b[1] /\ b[1] < a[1] + a[2]
    /\ consumed = Source(0, src_len) /\ eof(output)

\* C2: under any interleaving of inserts of segments of one source and reads,
\* for any capacity, the bytes written so far to the stream are exactly the
\* source bytes [0, next_byte_idx) in order; next_byte_idx never decreases and
\* the bytes already committed are never changed or committed again.
C2_CommittedIsSourcePrefix ==
    /\ [](/\ accepted = Source(0, next_byte_idx)
          /\ output.bytes_written = next_byte_idx)
    /\ [][/\ next_byte_idx' >= next_byte_idx
          /\ IsPrefix(accepted, accepted')]_vars

C2_Witness ==
    /\ next_byte_idx > output.capacity /\ output.capacity > 1
    /\ output.bytes_read > 0 /\ Len(output.buffer) > 0
    /\ accepted = Source(0, next_byte_idx)

\* C3: after any sequence of inserts and reads, bytes_pending plus the bytes
\* written to the stream and not yet read never exceeds the capacity.
C3_CapacitySafety == Pending + Buffered <= output.capacity

\* an open stream holding bytes, a gap of one byte, and pending bytes up to
\* the end of the window
C3_Witness ==
    /\ Pending > 0 /\ Buffered > 0
    /\ ~output.closed
    /\ Pending + Buffered = output.capacity - 1

\* C4: for every capacity and every interleaving of writes with reads (or
\* peek_output followed by pop_output), the bytes consumed so far are the first
\* bytes_read bytes of the bytes accepted by write, in the same order.
C4_RoundTrip ==
    /\ Len(consumed) = output.bytes_read
    /\ output.bytes_read <= Len(accepted)
    /\ consumed = Slice(accepted, 0, output.bytes_read)

C4_Witness ==
    /\ ret.op = "peek_pop" /\ ret.n > 0
    /\ output.bytes_read > output.capacity
    /\ Len(output.buffer) > 0
    /\ \E i \in 1..Len(consumed), j \in 1..Len(consumed) : consumed[i] # consumed[j]

\* C5 as stated: 0 <= buffer_size <= C and bytes_written - bytes_read =
\* buffer_size, and every write of a buffer longer than the remaining capacity
\* accepts exactly remaining_capacity bytes.
C5_Original ==
    /\ 0 <= buffer_size(output) /\ buffer_size(output) <= output.capacity
    /\ output.bytes_written - output.bytes_read = buffer_size(output)
    /\ (ret.op = "write" /\ ret.len > ret.avail => ret.n = ret.avail)

\* C5: after any sequence of write, read, pop_output, peek_output and close,
\* 0 <= buffer_size <= C and bytes_written - bytes_read = buffer_size; a write
\* on a stream that is not closed of a buffer longer than the remaining capacity
\* accepts exactly remaining_capacity bytes and fills the stream.
C5_CapacityAndClampedWrite ==
    /\ 0 <= buffer_size(output) /\ buffer_size(output) <= output.capacity
    /\ output.bytes_written - output.bytes_read = buffer_size(output)
    /\ (ret.op = "write" /\ ret.res = "Ok" /\ ret.len > ret.avail =>
            /\ ret.n = ret.avail
            /\ remaining_capacity(output) = 0)

C5_Witness ==
    /\ ret.op = "write" /\ ret.res = "Ok"
    /\ ret.len > ret.avail /\ ret.avail > 0
    /\ output.bytes_read > 0

\* C6: for any capacity >= 1 and any finite source of N bytes, if the consumer
\* keeps reading and every segment of the source keeps being offered to insert
\* (is_last on the segments ending at N), then eventually all N bytes have been
\* delivered in order and eof is true; until then what was delivered is a
\* prefix of the source.
C6_EventualDelivery ==
    /\ [](output.capacity >= 1 => IsPrefix(consumed, Source(0, src_len)))
    /\ (output.capacity >= 1) ~> (consumed = Source(0, src_len) /\ eof(output))

C6_Witness ==
    /\ output.capacity >= 1 /\ output.capacity < src_len
    /\ src_len = MaxSrc
    /\ consumed = Source(0, src_len) /\ eof(output)

\* C7: if every is_last insert declared the same end index E, the stream is
\* not closed while next_byte_idx < E, and eof is reported only after all E
\* bytes have been committed and read.
C7_NoEarlyClose ==
    (last_recvd /\ one_end) =>
        /\ output.closed => next_byte_idx >= last_byte_idx[1]
        /\ eof(output) => /\ output.bytes_written >= last_byte_idx[1]
                          /\ output.bytes_read >= last_byte_idx[1]

\* the last segment was seen while earlier bytes were missing, some bytes were
\* committed since, and the stream is still open
C7_Witness ==
    /\ last_recvd /\ one_end
    /\ next_byte_idx < last_byte_idx[1] /\ next_byte_idx > 0
    /\ Pending = 0
    /\ ~output.closed

\* C8 as stated: after every insert the stream is closed if and only if an
\* is_last insert has been received and next_byte_idx >= last_byte_idx.
C8_Original ==
    ret.op = "insert" => (output.closed <=> is_done(RA))

\* C8: provided every is_last insert declared the same end index, after every
\* insert the stream is closed if and only if an is_last insert has been
\* received and next_byte_idx >= last_byte_idx.
C8_ClosedIffDone ==
    (ret.op = "insert" /\ one_end) => (output.closed <=> is_done(RA))

C8_Witness ==
    /\ ret.op = "insert" /\ one_end
    /\ output.closed /\ is_done(RA)
    /\ next_byte_idx > 1 /\ output.bytes_read > 0

\* C9 as stated: once an is_last insert has declared the end index E (and no
\* other end index is declared), no byte with absolute index >= E is committed
\* to the stream.
C9_Original ==
    [][(last_recvd /\ one_end' /\ next_byte_idx' > next_byte_idx)
          => next_byte_idx' <= last_byte_idx[1]]_vars

\* C10: after every insert and every read, every pending segment (k, v) has
\* k >= next_byte_idx and k + |v| <= next_byte_idx + remaining capacity.
C10_PendingInWindow ==
    \A k \in DOMAIN segments :
        /\ k >= next_byte_idx
        /\ k + Len(segments[k]) <= next_byte_idx + remaining_capacity(output)

\* a read has just widened the window past a pending segment that was
\* truncated at the window's end
C10_Witness ==
    /\ ret.op = "read" /\ ret.n > 0
    /\ \E k \in DOMAIN segments :
          /\ k > next_byte_idx
          /\ k + Len(segments[k]) = next_byte_idx + remaining_capacity(output) - ret.n

\* C11 as stated: after every insert no two pending segments overlap and no
\* two are adjacent (one ending exactly where another starts).
C11_Original ==
    ret.op = "insert" =>
        \A k1 \in DOMAIN segments, k2 \in DOMAIN segments :
            k1 < k2 => k1 + Len(segments[k1]) < k2

\* C13 as stated: bytes written to the stream plus bytes_pending never
\* decreases across any insert or read.
C13_Original ==
    [][output'.bytes_written + Pending' >= output.bytes_written + Pending]_vars

\* C15 as stated: once the Reassembler has closed its stream, every later
\* insert returns Ok and makes no further byte readable.
C15_Original ==
    [][(output.closed /\ ret'.op = "insert") =>
          /\ ret'.res = "Ok"
          /\ output'.buffer = output.buffer
          /\ output'.bytes_written = output.bytes_written]_vars

\* C12 as stated: after any sequence of inserts, issuing one of them again
\* with identical arguments leaves bytes_written, the readable bytes and the
\* closed flag of the stream as they were.
C12_Original ==
    [][ret'.op = "reissue" => output' = output]_vars

\* C12: provided every is_last insert declared the same end index, issuing an
\* insert again with identical arguments, at any point after it was first
\* issued and with no read in between, leaves bytes_written, the readable
\* bytes and the closed flag of the stream as they were.
C12_ReissueLeavesStream ==
    [][(ret'.op = "reissue" /\ one_end') => output' = output]_vars

\* an is_last insert that was cut at the capacity, so that only its head is
\* committed and the stream is open, has been issued again
C12_Witness ==
    /\ ret.op = "reissue" /\ one_end
    /\ dup[3] /\ ~output.closed
    /\ dup[2] < next_byte_idx /\ next_byte_idx < dup[2] + Len(dup[1])

\* C14 as stated: bytes_pending equals the number of distinct byte indices
\* that were admitted to the pending map and are not yet committed.
C14_Original == Pending = Cardinality(admitted)

\* C16: write on a closed ByteStream returns an error, accepts no byte and
\* leaves the buffer, bytes_written, bytes_read and the closed flag unchanged,
\* whatever the fill level of the buffer and the length of the input.
C16_WriteOnClosedFails ==
    [][(output.closed /\ ret'.op = "write") =>
          /\ ret'.res = "Err" /\ ret'.n = 0
          /\ output' = output]_vars

\* a non-empty write was refused by a closed stream that holds bytes and has
\* room left
C16_Witness ==
    /\ ret.op = "write" /\ ret.res = "Err"
    /\ ret.len > 0 /\ ret.avail > 0
    /\ output.closed /\ Len(output.buffer) > 0 /\ output.bytes_read > 0

\* C17: eof() is true exactly when the stream is closed and every byte written
\* has been read; close on a stream that holds bytes keeps the bytes and does
\* not report eof, the bytes stay readable in order, and a read on a closed
\* stream that holds bytes returns some of them.
C17_EofIffClosedAndDrained ==
    /\ [](eof(output) <=> (output.closed /\ output.bytes_read = output.bytes_written))
    /\ [](IsPrefix(consumed, accepted))
    /\ [][ret'.op = "close" =>
            /\ output'.buffer = output.buffer
            /\ (Len(output.buffer) > 0 => ~eof(output'))]_vars
    /\ [][(output.closed /\ Len(output.buffer) > 0 /\ ret'.op = "read") =>
            ret'.n > 0]_vars

\* the last bytes of a closed stream have just been read, in order, and eof is
\* reported
C17_Witness ==
    /\ output.closed /\ ret.op = "read" /\ ret.n > 0
    /\ eof(output)
    /\ consumed = accepted /\ Len(consumed) > 1

\* C18: for every isn, every absolute index n in the lower half of the u64
\* range and every checkpoint in [n - HALF_WRAP, n + HALF_WRAP),
\* wrap(n, isn).unwrap(isn, checkpoint) = n (and neither call panics).
C18_WrapUnwrapRoundTrip ==
    (/\ w32.op = "unwrap" /\ w32.n # None
     /\ w32.n[1] < U64_SIZE \div 2
     /\ w32.n[1] - HALF_WRAP <= w32.checkpoint
     /\ w32.checkpoint < w32.n[1] + HALF_WRAP)
        => (~w32.panic /\ w32.abs = w32.n[1])

\* an index beyond the first wrap-around, an isn that makes the value wrap,
\* and a checkpoint in another wrap than the index
C18_Witness ==
    /\ w32.op = "unwrap" /\ w32.n # None /\ ~w32.panic
    /\ w32.n[1] < U64_SIZE \div 2 /\ w32.n[1] >= WRAP_SIZE
    /\ w32.n[1] - HALF_WRAP <= w32.checkpoint
    /\ w32.checkpoint < w32.n[1] + HALF_WRAP
    /\ w32.checkpoint \div WRAP_SIZE # w32.n[1] \div WRAP_SIZE
    /\ w32.value < w32.isn
    /\ w32.abs = w32.n[1]

\* C19 as stated: unwrap returns, among the u64 indices a with
\* wrap(a, isn) = value, the one closest to the checkpoint, and the larger one
\* when two are equally close.
C19_Original ==
    w32.op = "unwrap" =>
        /\ ~w32.panic
        /\ wrap(w32.abs, w32.isn, FALSE).value = w32.value
        /\ \A a \in 0..(U64_SIZE - 1) :
              wrap(a, w32.isn, FALSE).value = w32.value =>
                 LET da == IF a >= w32.checkpoint THEN a - w32.checkpoint
                                                  ELSE w32.checkpoint - a
                     dr == IF w32.abs >= w32.checkpoint THEN w32.abs - w32.checkpoint
                                                        ELSE w32.checkpoint - w32.abs
                 IN dr < da \/ (dr = da /\ w32.abs >= a)

\* C20 as stated: after a SYN with sequence number ISN, a data segment with
\* sequence number ISN + 1 + k has its payload inserted at stream index k, and
\* the first payload byte after the SYN (k = 0) becomes readable.
C20_Original ==
    LET k == (ret.seq_no - syn_seq[1] - 1) % WRAP_SIZE
    IN (/\ ret.op = "receive_segment" /\ ret.res = "Ok"
        /\ ~ret.syn /\ ~ret.fin /\ ret.len > 0
        /\ syn_seq # None
        /\ k <= MaxIdx /\ ret.before <= k)
          => /\ ret.at = k
             /\ (k = 0 /\ output.capacity >= 1) => ret.n > 0

\* C21 as stated: a FIN-bearing segment has its payload inserted at the stream
\* index at which a segment without FIN and with the same sequence number is
\* inserted, and marks the end of the stream right after its payload.
C21_Original ==
    (ret.op = "receive_segment" /\ ~ret.syn /\ ret.fin /\ ret.res # "Panic") =>
        LET k == unwrap(ret.seq_no, isn, ret.before, OverflowChecks).abs
        IN /\ ret.at = k
           /\ last_byte_idx = Some(k + ret.len)

\* C22 as stated: once the SYN was received, the acknowledgement number the
\* receiver produces is wrap(next_byte_idx + 1 + (1 once the FIN is committed),
\* isn).
C22_Original ==
    (ret.op = "generate_ack" /\ syn_seq # None) =>
        ret.ack_no = wrap(next_byte_idx + 1 + (IF is_done(RA) THEN 1 ELSE 0),
                          isn, OverflowChecks).value

\* C23 as stated: whenever an ACK is generated, the advertised window equals
\* the remaining capacity of the receiver's ByteStream at that moment.
C23_Original ==
    ret.op = "generate_ack" => ret.window = remaining_capacity(output)

\* C24: a successful connect leaves the Closed state for SynSent and emits
\* exactly one segment, which carries the SYN flag alone and the local ISN as
\* its sequence number; that segment is stored in sent_segments under the ISN
\* and the next sequence number is ISN + 1 modulo the size of the sequence space.
C24_ConnectSendsSyn ==
    [][ret'.op = "connect" =>
          /\ ret'.res = "Ok"
          /\ sock.state = "Closed" /\ sock'.state = "SynSent"
          /\ Len(wire') = 1
          /\ wire'[1].flags = {"SYN"}
          /\ wire'[1].seq_no = sock_isn
          /\ wire'[1].payload = <<>>
          /\ DOMAIN sock'.sent_segments = {sock_isn}
          /\ sock'.sent_segments[sock_isn] = <<>>
          /\ sock'.seq_no = (sock_isn + 1) % WRAP_SIZE]_vars

\* C24 witness: connect has run on a socket whose ISN is the last number of
\* the sequence space, so the next sequence number wrapped around to 0.
C24_Witness ==
    /\ ret.op = "connect" /\ ret.res = "Ok" /\ ret.before = "Closed"
    /\ sock.state = "SynSent"
    /\ sock_isn = WRAP_SIZE - 1 /\ sock.seq_no = 0
    /\ Len(wire) = 1 /\ wire[1].seq_no = sock_isn

\* C25 as stated: accepting a SYN with sequence number S in Listen moves to
\* SynRcvd, latches S as the peer's ISN and emits exactly one SYN+ACK whose
\* acknowledgement number is S + 1.
C25_Original ==
    [][(ret'.op = "accept" /\ ret'.res = "Ok") =>
          /\ sock.state = "Listen" /\ sock'.state = "SynRcvd"
          /\ Len(wire') = 1
          /\ wire'[1].flags = {"SYN", "ACK"}
          /\ wire'[1].ack_no = (ret'.received[1].seq_no + 1) % WRAP_SIZE
          /\ sock'.ack_no = (ret'.received[1].seq_no + 1) % WRAP_SIZE]_vars

\* C26 as stated: in SynRcvd, an ACK whose acknowledgement number is the local
\* ISN + 1 (the ISN being the sequence number the SYN+ACK carried) moves the
\* socket to Established.
C26_Original ==
    [][(/\ ret'.op = "confirm"
        /\ ret'.received # None
        /\ "ACK" \in ret'.received[1].flags
        /\ ret'.received[1].ack_no = (sock_isn + 1) % WRAP_SIZE)
       => sock'.state = "Established"]_vars

\* C27 as stated: every successful send stores the segment in sent_segments
\* and moves the next sequence number on by |payload| + 1 for SYN + 1 for FIN,
\* so that unacknowledged data segments sent one after the other keep distinct
\* entries.
C27_Original ==
    [][(/\ ret'.op \in {"send_syn", "send_ack", "send_syn_ack", "send_fin",
                        "send_fin_ack", "send_rst", "send_data"}
        /\ ret'.res = "Ok")
       => /\ Len(wire') = 1
          /\ sock.seq_no \in DOMAIN sock'.sent_segments
          /\ sock'.sent_segments[sock.seq_no] = ret'.payload
          /\ sock'.seq_no =
                (sock.seq_no + Len(ret'.payload)
                   + (IF "SYN" \in wire'[1].flags THEN 1 ELSE 0)
                   + (IF "FIN" \in wire'[1].flags THEN 1 ELSE 0)) % WRAP_SIZE
          /\ (ret'.op = "send_data" /\ ret'.payload # <<>>)
                => \A k \in DOMAIN sock.sent_segments :
                      sock'.sent_segments[k] = sock.sent_segments[k]]_vars

\* C28 as stated: the socket emits only what the state table allows in its
\* state: a data segment in Established only, a SYN only by connect from
\* Closed and by accept from Listen.
C28_Original ==
    [][wire' # <<>> =>
          /\ ret'.op = "send_data" => sock.state = "Established"
          /\ "SYN" \in wire'[1].flags =>
                \/ ret'.op = "connect" /\ sock.state = "Closed"
                \/ ret'.op = "accept" /\ sock.state = "Listen"]_vars

\* C29 as stated: a SYN-bearing segment that arrives once the handshake SYN
\* was processed, in SynRcvd, Established or any later state, is dropped: the
\* state, the latched ISN, the reassembler and the byte stream stay as they are.
C29_Original ==
    [][(/\ ret'.op = "conn_receive_segment"
        /\ ret'.syn
        /\ crcv.state # "Listen")
       => crcv' = crcv]_vars

\* The transitions of the state table that a received segment can cause.
TableOnSegment ==
    {<<"Listen", "SynRcvd">>, <<"SynSent", "Established">>,
     <<"SynRcvd", "Established">>, <<"Established", "CloseWait">>,
     <<"FinWait1", "FinWait2">>, <<"FinWait1", "Closing">>,
     <<"FinWait2", "TimeWait">>, <<"LastAck", "Closed">>,
     <<"Closing", "TimeWait">>}

\* C30 as stated: every change of state that receive_segment makes is a
\* transition of the state table, and a receiver that a FIN moved from
\* Established to CloseWait is never Established again.
C30_Original ==
    [][(ret'.op = "conn_receive_segment" /\ crcv'.state # crcv.state)
       => /\ <<crcv.state, crcv'.state>> \in TableOnSegment
          /\ ~(crcv.state = "CloseWait" /\ crcv'.state = "Established")]_vars

\* C31 as stated: whenever sent_segments is not empty, the retransmit
\* operation sends again the stored segment with the lowest sequence number.
C31_Original ==
    [][(/\ ret'.op = "retransmit_last_segment"
        /\ DOMAIN sock.sent_segments # {})
       => LET lowest == CHOOSE k \in DOMAIN sock.sent_segments :
                            \A j \in DOMAIN sock.sent_segments : k <= j
          IN /\ ret'.res = "Ok"
             /\ Len(wire') = 1
             /\ wire'[1].payload = sock.sent_segments[lowest]]_vars

\* C38 as stated: after a successful accept the remote endpoint of the
\* control block is the source address and source port of the SYN, and the
\* SYN+ACK is addressed to them.
C38_Original ==
    [][(ret'.op = "accept" /\ ret'.res = "Ok") =>
          /\ sock'.dst_ip = Some(ret'.received[1].src_ip)
          /\ sock'.dst_port = Some(ret'.received[1].src_port)
          /\ Len(wire') = 1
          /\ wire'[1].dst_ip = ret'.received[1].src_ip
          /\ wire'[1].dst_port = ret'.received[1].src_port]_vars

\* C39 as stated: when accept or confirm finds no segment, or one that does
\* not match, it reports WouldBlock and the socket stays in its state with
\* its control block unchanged, ready for the call to be made again.
C39_Original ==
    [][(ret'.op \in {"accept", "confirm"} /\ ret'.res # "Ok") =>
          /\ ret'.res = "WouldBlock"
          /\ wire' = <<>>
          /\ sock' = sock]_vars

\* C40: a send attempted while the destination address or port is unset
\* fails and changes nothing: no segment goes to the Sender, sent_segments,
\* the timer and the sequence number stay as they are.
C40_SendWithoutDestination ==
    [][(/\ ret'.op \in {"send_syn", "send_ack", "send_syn_ack", "send_fin",
                        "send_fin_ack", "send_rst", "send_data"}
        /\ (sock.dst_ip = None \/ sock.dst_port = None))
       => /\ ret'.res = "Err"
          /\ wire' = <<>>
          /\ sock'.sent_segments = sock.sent_segments
          /\ sock'.timer = sock.timer
          /\ sock'.seq_no = sock.seq_no
          /\ sock' = sock]_vars

\* C40 witness: a data segment was offered to a listening socket, which has
\* no destination, and was refused.
C40_Witness ==
    /\ ret.op = "send_data" /\ ret.res = "Err" /\ ret.payload # <<>>
    /\ ret.before = "Listen" /\ sock.state = "Listen"
    /\ sock.dst_ip = None /\ sock.dst_port = None
    /\ wire = <<>> /\ DOMAIN sock.sent_segments = {} /\ sock.timer = "idle"

\* C32 as stated: for every IPv4 header the 20 bytes serialize writes sum to
\* 0xFFFF with the checksum field included (the checksum function returns 0
\* over them), and parse of them never fails with BadChecksum.
C32_Original ==
    /\ (codec.op = "ip_serialize" /\ codec.res = "Ok")
          => IPHeader_checksum(codec.packet) = 0
    /\ codec.op = "ip_parse" => codec.res # "BadChecksum"

\* C33 as stated: for every well-formed header pair and payload, unwrap of
\* the wrapped packet succeeds and returns the headers, options and payload
\* that went in (the checksum fields apart, which serialize computes).
C33_Original ==
    (codec.op = "unwrap" /\ codec.from = "wrap") =>
        /\ codec.res = "Ok"
        /\ [codec.out[1][1] EXCEPT !.checksum = 0] = [codec.iph EXCEPT !.checksum = 0]
        /\ [codec.out[1][2] EXCEPT !.checksum = 0] = [codec.tcph EXCEPT !.checksum = 0]

\* C34 as stated: unwrap of any bytes returns Ok or a HeaderError and never
\* aborts; a packet under 20 bytes, or with a total_len field under 20 or over
\* the packet's length, is refused with BufferTooSmall.
C34_Original ==
    codec.op = "unwrap" =>
        /\ codec.res # "Panic"
        /\ Len(codec.packet) < 20 => codec.res = "BufferTooSmall"
        /\ (/\ Len(codec.packet) >= 20
            /\ codec.from = "forge"
            /\ \/ FromBE16(codec.packet[3], codec.packet[4]) < 20
               \/ FromBE16(codec.packet[3], codec.packet[4]) > Len(codec.packet))
           => codec.res = "BufferTooSmall"

\* C36: while the stream is open every pending segment ends within the
\* stream's remaining capacity counted from next_byte_idx, so the commit step
\* writes a segment it finds at next_byte_idx completely; and no segment is
\* left keyed at next_byte_idx, as the zero-write branch and the re-keyed
\* remainder of a partial write would leave one.
C36_CommitWritesWhole ==
    ~output.closed =>
        /\ \A k \in DOMAIN segments :
              k + Len(segments[k]) <= next_byte_idx + remaining_capacity(output)
        /\ next_byte_idx \notin DOMAIN segments

\* C36 witness: an insert has committed bytes that fill the open stream to
\* its capacity while a read had made room before.
C36_Witness ==
    /\ ret.op = "insert" /\ ret.res = "Ok"
    /\ ~output.closed
    /\ output.bytes_read > 0
    /\ next_byte_idx = output.bytes_written
    /\ remaining_capacity(output) = 0
    /\ output.capacity > 1

\* C35: when the window admitted by an insert overlaps pending bytes, after
\* the insert every index of the window holds the byte of the new data and
\* every pending byte outside the window keeps its value.
C35_Original ==
    ret.op = "insert_last" =>
        LET b == ret.before
            window == AdmittedBy(b, ret.data, ret.seq_num, ret.is_last)
        IN (window \cap PendingIndices(b) # {}) =>
              /\ \A i \in window :
                    HeldAt(RA, i) = {ret.data[i - ret.seq_num + 1]}
              /\ \A i \in PendingIndices(b) \ window :
                    HeldAt(RA, i) = PendingAt(b, i)

\* C37: after every successful receive_segment the stream of the reassembler
\* is empty, and the data returned by the calls so far, concatenated, is the
\* committed bytes [0, next_byte_idx) in the order they were committed.
C37_ReturnsAllCommitted ==
    (ret.op = "receive_segment" /\ ret.res = "Ok") =>
        /\ output.buffer = <<>>
        /\ output.bytes_read = output.bytes_written
        /\ Len(accepted) = next_byte_idx
        /\ consumed = accepted

\* C37 witness: a call whose one-byte payload fills the gap before a pending
\* byte returns both bytes at once, after an earlier call returned none.
C37_Witness ==
    /\ ret.op = "receive_segment" /\ ret.res = "Ok"
    /\ ~ret.syn
    /\ ret.len = 1 /\ ret.n = 2
    /\ Len(consumed) = 2 /\ consumed = accepted
    /\ next_byte_idx = 2
    /\ output.buffer = <<>>

====
